---- MODULE Spec2Model ----
(***************************************************************************)
(* Model of the code execution engine of eval.py: is_code_safe,            *)
(* cleanup_temp_file, kill_process_tree and execute_code, together with    *)
(* the operating-system objects they act on (the staged file, the spawned  *)
(* interpreter and the processes it forks, the output pipes, the clock).   *)
(*                                                                         *)
(* Text is a sequence of tokens: program output is a sequence of one-      *)
(* character tokens, a fixed message of the engine is a one-token          *)
(* sequence, the empty string is << >>.                                    *)
(***************************************************************************)
EXTENDS Integers, Sequences, FiniteSets, TLC

\* ---------------------------------------------------------------- bounds
\* number of processes the interpreter's process tree may create
MaxDesc == 2
\* largest number of characters the snippet writes to its two streams
MaxOut == 1
\* the clock stops advancing here (seconds since the spawn)
MaxTime == 17

\* largest number of forbidden patterns one snippet of the direct calls of
\* is_code_safe matches
MaxHits == 2

\* number of process ids the operating system hands out in the model of
\* concurrent calls
MaxPids == 3

\* direct calls of is_code_safe in a row
MaxCalls == 2

\* largest number of half-limit chunks the child writes to one stream in
\* the model of the capture
MaxChunks == 3

\* largest number of words after the prefix on the first line of a chat
\* message, and largest number of lines after the first
MaxWords == 2
MaxLines == 1

\* ------------------------------------------------------ program constants
MAX_EXECUTION_TIME == 10
MAX_OUTPUT_LENGTH == 4000
MAX_CODE_LENGTH == 10000
\* timeout=3 of psutil.wait_procs and of parent.wait
GRACE_PERIOD == 3
SUPPORTED_LANGUAGES ==
  [l \in {"python", "javascript", "bash", "shell"} |->
     CASE l = "python"     -> [ext |-> ".py", cmd |-> <<"python3">>]
       [] l = "javascript" -> [ext |-> ".js", cmd |-> <<"node">>]
       [] l = "bash"       -> [ext |-> ".sh", cmd |-> <<"bash">>]
       [] l = "shell"      -> [ext |-> ".sh", cmd |-> <<"bash">>]]

FORBIDDEN_PATTERNS ==
  << "import\\s+os", "import\\s+subprocess", "import\\s+sys", "__import__",
     "eval\\s*\\(", "exec\\s*\\(", "open\\s*\\(", "file\\s*\\(",
     "input\\s*\\(", "raw_input\\s*\\(", "rm\\s+-rf", "sudo", "chmod",
     "chown", "curl", "wget", "nc\\s", "netcat" >>

\* ------------------------------------------------------------- requests
\* A snippet is described by what the validator looks at: whether it is a
\* str, its length, and the indices of the forbidden patterns that
\* re.search finds in it.
Snippet(isStr, len, hits) == [isStr |-> isStr, len |-> len, hits |-> hits]

Codes ==
  { Snippet(TRUE, 0, {}),                      \* ''
    Snippet(FALSE, 0, {}),                     \* None
    Snippet(TRUE, 1, {}),
    Snippet(TRUE, MAX_CODE_LENGTH + 1, {}),
    Snippet(TRUE, MAX_CODE_LENGTH + 1, {1}),
    Snippet(TRUE, 20, {1, 4}) }                 \* "import os;__import__"

Languages == {"bash", "ruby", ""}

\* the pattern list as shipped compiles; MalformedSets are the sets of
\* indices at which a list with malformed members makes re.search raise
\* re.error
MalformedSets == {{}, {1}, {2}, {1, 2}, {18}}

\* a snippet together with the indices at which re.search raises re.error
SnippetWith(isStr, len, hits, errs) ==
  [isStr |-> isStr, len |-> len, hits |-> hits, errs |-> errs]

\* the arguments of the direct calls of is_code_safe: values that are no
\* str (empty or not), the empty str, a short str, and strs around the
\* length limit that match up to MaxHits patterns. A str that matches
\* raw_input\s*\( (pattern 10) matches input\s*\( (pattern 9) as well.
\* With a malformed pattern in the list, hits are the well-formed patterns
\* that match.
SafeCodes ==
  { Snippet(FALSE, 0, {}), Snippet(FALSE, 1, {}),
    Snippet(TRUE, 0, {}), Snippet(TRUE, 1, {}) }
  \cup
  { Snippet(TRUE, l, h) :
      l \in {40, MAX_CODE_LENGTH, MAX_CODE_LENGTH + 1},
      h \in { x \in SUBSET (1 .. Len(FORBIDDEN_PATTERNS)) :
                /\ Cardinality(x) <= MaxHits
                /\ 10 \in x => 9 \in x } }
  \cup
  { SnippetWith(TRUE, l, he[1], he[2]) :
      l \in {40, MAX_CODE_LENGTH + 1},
      he \in { x \in { y \in SUBSET (1 .. Len(FORBIDDEN_PATTERNS)) :
                          Cardinality(y) <= MaxHits }
                     \X (MalformedSets \ {{}}) :
                 x[1] \cap x[2] = {} } }

\* the processes: the interpreter and what it may fork
CHILD == 1
Procs == 1 .. (1 + MaxDesc)
INIT_PID == 0

Chars == {"a"}
ExitCodes == {0, 1}

VARIABLES
  language, code,       \* the arguments of the call
  pc,                   \* position of the call inside execute_code
  temp_file_path,       \* local of execute_code: "None" or the path
  fileExists,           \* the staged file is on disk
  process,              \* local of execute_code: a Process object exists
  returncode,           \* process.returncode: << >> (None) or << rc >>
  pstate,               \* OS state of each process
  ppid,                 \* OS parent of each process
  holds,                \* the process holds the write ends of the pipes
  ignTerm,              \* the process ignores SIGTERM
  exitcode,             \* exit status of the interpreter
  out, err,             \* bytes written to the stdout / stderr pipe
  now,                  \* seconds since the spawn
  waitStart,            \* when the current timed wait began
  children,             \* local of kill_process_tree: enumerated list
  idx,                  \* loop index of kill_process_tree
  alive,                \* local of kill_process_tree: wait_procs result
  result,               \* the dictionary returned, NoResult before return
  atDeadline,           \* observation: the live processes forked below the
                        \* interpreter when the deadline fired
  termSent,             \* observation: processes terminate() was called on
  killSent,             \* observation: processes kill() was called on
                        \* (the three are kept while kill_process_tree runs)
  hist                  \* observations of the whole call (history only)

vars == << language, code, pc, temp_file_path, fileExists, process,
           returncode, pstate, ppid, holds, ignTerm, exitcode, out, err,
           now, waitStart, children, idx, alive, result, atDeadline,
           termSent, killSent, hist >>

osVars == << pstate, ppid, holds, ignTerm, exitcode, out, err >>
kptVars == << children, idx, alive >>
obsVars == << atDeadline, termSent, killSent >>
callVars == << language, code >>


\* ------------------------------------------------------------- helpers
RECURSIVE SetToSortedSeq(_)
\* the members of a set of process ids as a list in increasing order
SetToSortedSeq(S) ==
  IF S = {} THEN << >>
  ELSE LET m == CHOOSE x \in S : \A y \in S : x <= y
       IN  << m >> \o SetToSortedSeq(S \ {m})

SeqRange(s) == { s[i] : i \in 1 .. Len(s) }

RECURSIVE DescendantsUpTo(_, _, _)
DescendantsUpTo(p, pp, n) ==
  IF n = 0 THEN {}
  ELSE LET direct == { q \in Procs : pp[q] = p }
       IN  direct \cup UNION { DescendantsUpTo(q, pp, n - 1) : q \in direct }

\* Process.children(recursive=True): the live processes whose chain of OS
\* parents leads to p
ChildrenRecursive(p, ps, pp) ==
  { q \in DescendantsUpTo(p, pp, Cardinality(Procs)) : ps[q] = "running" }

\* psutil.pid_exists: a zombie still has its pid
pid_exists(p) == pstate[p] \in {"running", "zombie"}

Running(p) == pstate[p] = "running"

\* every process that was forked below the interpreter
Forked == { q \in Procs \ {CHILD} : pstate[q] # "none" }

\* the read ends of the pipes have reached end of file
PipesAtEOF == \A p \in Procs : ~(Running(p) /\ holds[p])

\* --------------------------------------------------------- is_code_safe
\* the indices at which re.search raises re.error for this call
ReErrors(c) == IF "errs" \in DOMAIN c THEN c.errs ELSE {}

\* variant of the loop in which a re.error reaches the outer handler
RECURSIVE ScanPatterns_AbortOnError(_, _)
ScanPatterns_AbortOnError(c, k) ==
  IF k > Len(FORBIDDEN_PATTERNS) THEN << TRUE, << >> >>
  ELSE IF k \in ReErrors(c)
       THEN << FALSE, << "Security check failed: ", "<e>" >> >>
  ELSE IF k \in c.hits
       THEN << FALSE, << "Forbidden pattern detected: ", FORBIDDEN_PATTERNS[k] >> >>
  ELSE ScanPatterns_AbortOnError(c, k + 1)

\* lines 321-330: the loop over the patterns from the k-th on; a pattern
\* that raises re.error is logged and skipped, the first one that matches
\* rejects, and the end of the list accepts
RECURSIVE ScanPatterns(_, _)
ScanPatterns(c, k) ==
  IF k > Len(FORBIDDEN_PATTERNS) THEN << TRUE, << >> >>
  ELSE IF k \in ReErrors(c) THEN ScanPatterns(c, k + 1)
  ELSE IF k \in c.hits
       THEN << FALSE, << "Forbidden pattern detected: ", FORBIDDEN_PATTERNS[k] >> >>
  ELSE ScanPatterns(c, k + 1)

\* variant of is_code_safe that looks for the patterns before the length
is_code_safe_PatternsFirst(c) ==
  IF c.len = 0 \/ ~c.isStr THEN << FALSE, << "Invalid code input" >> >>
  ELSE IF ~ScanPatterns(c, 1)[1] THEN ScanPatterns(c, 1)
  ELSE IF c.len > MAX_CODE_LENGTH
       THEN << FALSE, << "Code too long (max ", ToString(MAX_CODE_LENGTH), " characters)" >> >>
  ELSE << TRUE, << >> >>

\* variant of is_code_safe whose pattern list is an iterator that the
\* first call uses up
is_code_safe_ExhaustedPatterns(c) ==
  IF c.len = 0 \/ ~c.isStr THEN << FALSE, << "Invalid code input" >> >>
  ELSE IF c.len > MAX_CODE_LENGTH
       THEN << FALSE, << "Code too long (max ", ToString(MAX_CODE_LENGTH), " characters)" >> >>
  ELSE IF hist.safeCalls > 0 THEN << TRUE, << >> >>
  ELSE ScanPatterns(c, 1)

\* the (is_safe, reason) pair of is_code_safe
is_code_safe(c) ==
  IF c.len = 0 \/ ~c.isStr THEN << FALSE, << "Invalid code input" >> >>
  ELSE IF c.len > MAX_CODE_LENGTH
       THEN << FALSE, << "Code too long (max ", ToString(MAX_CODE_LENGTH), " characters)" >> >>
  ELSE ScanPatterns(c, 1)

\* ---------------------------------------------------- cleanup_temp_file
\* variant of cleanup_temp_file that forgets the os.unlink call
cleanup_temp_file_NoUnlink(path, exists, unlinkOk) == exists

\* whether the file is on disk after cleanup_temp_file(path); unlinkOk is
\* the outcome of os.unlink (an OSError is logged and nothing else happens)
cleanup_temp_file(path, exists, unlinkOk) ==
  IF path # "None" /\ exists
  THEN (IF unlinkOk THEN FALSE ELSE TRUE)
  ELSE exists

\* variant of the except clauses that lets the OSError of os.unlink out
CleanupRaises_OnUnlinkError(path, exists, unlinkOk) ==
  path # "None" /\ exists /\ ~unlinkOk

\* variant without the os.path.exists test and without the except clause:
\* os.unlink of a missing file raises FileNotFoundError
CleanupRaises_OnMissingFile(path, exists, unlinkOk) ==
  path # "None" /\ ~exists

\* whether cleanup_temp_file(path) raises: lines 341-344 catch OSError and
\* every other Exception and only log them
CleanupRaises(path, exists, unlinkOk) == FALSE

\* ------------------------------------------------------- result values
\* variant of the failure dictionary that carries a return code of -1
Rejection_WithReturnCode(msg) ==
  [success |-> FALSE, output |-> << >>, error |-> msg, return_code |-> -1]

\* the failure dictionary returned when no process has run to its end
Rejection(msg) == [success |-> FALSE, output |-> << >>, error |-> msg]

\* variant of the timeout result that hands out what was read so far
TimeoutResult_PartialOutput ==
  [success |-> FALSE, output |-> out,
   error |-> << "Execution timed out after ", ToString(MAX_EXECUTION_TIME), " seconds" >>]

TimeoutResult ==
  [success |-> FALSE, output |-> << >>,
   error |-> << "Execution timed out after ", ToString(MAX_EXECUTION_TIME), " seconds" >>]

OUT_MARKER == [i \in 1 .. 23 |-> "~"]
ERR_MARKER == [i \in 1 .. 29 |-> "~"]

\* variant of the truncation that keeps the end of the stream
Truncate_KeepTail(s, marker) ==
  IF Len(s) > MAX_OUTPUT_LENGTH
  THEN SubSeq(s, Len(s) - MAX_OUTPUT_LENGTH + 1, Len(s)) \o marker
  ELSE s

\* variant of the truncation that cuts a stream of exactly
\* MAX_OUTPUT_LENGTH characters as well
Truncate_AtLimit(s, marker) ==
  IF Len(s) >= MAX_OUTPUT_LENGTH
  THEN SubSeq(s, 1, MAX_OUTPUT_LENGTH) \o marker
  ELSE s

\* lines 501-508: a decoded stream longer than MAX_OUTPUT_LENGTH is cut to
\* its first MAX_OUTPUT_LENGTH characters and the marker is appended
Truncate(s, marker) ==
  IF Len(s) > MAX_OUTPUT_LENGTH
  THEN SubSeq(s, 1, MAX_OUTPUT_LENGTH) \o marker
  ELSE s

\* variant of the success test that takes every code but a crash for success
Success_NonNegative(rc) == rc >= 0

\* line 510: success = process.returncode == 0
Success(rc) == rc = 0

\* variant of the selection that falls back to stdout when stderr is empty
SelectOutput_StdoutFallback(success, stdout_str, stderr_str) ==
  IF success \/ stderr_str = << >> THEN stdout_str ELSE stderr_str

\* line 511: output = stdout_str if success else stderr_str
SelectOutput(success, stdout_str, stderr_str) ==
  IF success THEN stdout_str ELSE stderr_str

\* variant of the completed result that leaves the return code out
CompletedResult_NoReturnCode(stdout, stderr, rc) ==
  [success |-> rc = 0,
   output |-> IF rc = 0 THEN stdout ELSE stderr,
   error |-> IF rc # 0 THEN stderr ELSE << >>]

\* the dictionary built after communicate() has returned
CompletedResult(stdout, stderr, rc) ==
  LET stdout_str == Truncate(stdout, OUT_MARKER)
      stderr_str == Truncate(stderr, ERR_MARKER)
      success    == Success(rc)
  IN  [success |-> success,
       output |-> SelectOutput(success, stdout_str, stderr_str),
       error |-> IF ~success THEN stderr_str ELSE << >>,
       return_code |-> rc]

\* ------------------------------------------------------------ the call
\* value of result while the call has not returned
NoResult == [pending |-> TRUE]

\* what the caller gets when the call raises instead of returning
Raised == [raised |-> TRUE]

NoProc == [p \in Procs |-> "none"]

InitHist ==
  [ created |-> FALSE,      \* staging put a file on disk
    staged |-> FALSE,       \* temp_file_path was assigned
    spawned |-> FALSE,      \* create_subprocess_exec returned a process
    terminal |-> "none",    \* the terminal state of the call
    cleanupCalls |-> 0,     \* invocations of cleanup_temp_file
    unlinked |-> FALSE,     \* cleanup_temp_file removed the file
    unlinkFailed |-> FALSE, \* os.unlink raised inside cleanup_temp_file
    exitedEarly |-> FALSE,  \* the interpreter exited before the deadline
    noSuch |-> FALSE,       \* a signal met NoSuchProcess
    denied |-> FALSE,       \* a signal met another psutil error
    loopAborted |-> FALSE,  \* an exception ended a loop over the children
    waitRaised |-> FALSE,   \* process.wait() raised after the timeout
    safeCalls |-> 0,        \* direct calls of is_code_safe
    seen |-> {} ]           \* their << argument, return value >> pairs

\* the locals, the processes and the observations before anything ran
Fresh ==
  /\ pc = "validate"
  /\ temp_file_path = "None"
  /\ fileExists = FALSE
  /\ process = FALSE
  /\ returncode = << >>
  /\ pstate = NoProc
  /\ ppid = [p \in Procs |-> INIT_PID]
  /\ holds = [p \in Procs |-> FALSE]
  /\ ignTerm = [p \in Procs |-> FALSE]
  /\ exitcode = 0
  /\ out = << >>
  /\ err = << >>
  /\ now = 0
  /\ waitStart = 0
  /\ children = << >>
  /\ idx = 1
  /\ alive = << >>
  /\ result = NoResult
  /\ atDeadline = {}
  /\ termSent = {}
  /\ killSent = {}
  /\ hist = InitHist

Init ==
  /\ language \in Languages
  /\ code \in Codes
  /\ Fresh

\* variant of the return in which the completed path calls
\* cleanup_temp_file itself before the finally clause calls it again
ReturnWith_CleanupOnSuccessPathToo(res, path, exists, term, h) ==
  /\ pc' = "returned"
  /\ temp_file_path' = path
  /\ \E unlinkOk \in BOOLEAN :
       /\ result' = res
       /\ fileExists' = (IF path # "None"
                         THEN cleanup_temp_file(path, exists, unlinkOk)
                         ELSE exists)
       /\ hist' = [h EXCEPT !.terminal = term,
                            !.cleanupCalls = IF path = "None" THEN @
                                             ELSE IF term = "Completed" THEN @ + 2
                                             ELSE @ + 1,
                            !.unlinked = (path # "None" /\ exists /\ unlinkOk),
                            !.unlinkFailed = (path # "None" /\ exists /\ ~unlinkOk)]

\* "return res" inside the try of execute_code: the finally clause runs
\* cleanup_temp_file when temp_file_path is set, then the call returns.
\* path and exists are the values of temp_file_path and of the file at
\* the return statement, h the history up to it.
ReturnWith(res, path, exists, term, h) ==
  /\ pc' = "returned"
  /\ temp_file_path' = path
  /\ \E unlinkOk \in BOOLEAN :
       /\ result' = IF path # "None" /\ CleanupRaises(path, exists, unlinkOk)
                    THEN Raised
                    ELSE res
       /\ fileExists' = (IF path # "None"
                         THEN cleanup_temp_file(path, exists, unlinkOk)
                         ELSE exists)
       /\ hist' = [h EXCEPT !.terminal = term,
                            !.cleanupCalls = IF path # "None" THEN @ + 1 ELSE @,
                            !.unlinked = (path # "None" /\ exists /\ unlinkOk),
                            !.unlinkFailed = (path # "None" /\ exists /\ ~unlinkOk)]

\* str.lower() on the identifiers of the model
Lower(w) ==
  CASE w = "Python" -> "python"
    [] w = "BASH" -> "bash"
    [] w = "JS" -> "js"
    [] OTHER -> w

\* variant of the lookup that folds the case of the identifier first
LanguageSupported_IgnoreCase(l) ==
  l # "" /\ Lower(l) \in DOMAIN SUPPORTED_LANGUAGES

\* line 406: the identifier is not empty and is a key of the table
LanguageSupported(l) == l # "" /\ l \in DOMAIN SUPPORTED_LANGUAGES

\* lines 405-434: language check, code check, security check
Validate ==
  /\ pc = "validate"
  /\ UNCHANGED << callVars, process, returncode, osVars, now, waitStart, kptVars, obsVars >>
  /\ IF ~LanguageSupported(language)
     THEN ReturnWith(Rejection(<< "Unsupported language: ", language >>),
                     temp_file_path, fileExists, "Rejected", hist)
     ELSE IF code.len = 0 \/ ~code.isStr
     THEN ReturnWith(Rejection(<< "Invalid code input" >>),
                     temp_file_path, fileExists, "Rejected", hist)
     ELSE IF ~is_code_safe(code)[1]
     THEN ReturnWith(Rejection(<< "Code rejected for security reasons: " >>
                                 \o is_code_safe(code)[2]),
                     temp_file_path, fileExists, "Rejected", hist)
     ELSE /\ pc' = "stage"
          /\ UNCHANGED << temp_file_path, fileExists, result, hist >>

StagingError == Rejection(<< "Failed to create temporary file: ", "<e>" >>)

\* lines 440-447: NamedTemporaryFile(delete=False), write, name recorded
StageOk ==
  /\ pc = "stage"
  /\ temp_file_path' = "tmp"
  /\ fileExists' = TRUE
  /\ hist' = [hist EXCEPT !.created = TRUE, !.staged = TRUE]
  /\ pc' = "verify"
  /\ UNCHANGED << callVars, process, returncode, osVars, now, waitStart, kptVars, obsVars, result >>

\* lines 441-457: IOError before the file exists (NamedTemporaryFile)
StageCreateFails ==
  /\ pc = "stage"
  /\ ReturnWith(StagingError, "None", FALSE, "StagingFailed", hist)
  /\ UNCHANGED << callVars, process, returncode, osVars, now, waitStart, kptVars, obsVars >>

\* lines 446-457: IOError in temp_file.write, before temp_file_path is
\* assigned; the file was created with delete=False
StageWriteFails ==
  /\ pc = "stage"
  /\ ReturnWith(StagingError, "None", TRUE, "StagingFailed",
                [hist EXCEPT !.created = TRUE])
  /\ UNCHANGED << callVars, process, returncode, osVars, now, waitStart, kptVars, obsVars >>

\* variant without the outermost handler: the exception leaves the call
FatalError_Propagates == Raised

\* lines 577-585: the result of the outermost except clause
FatalError == Rejection(<< "Fatal error in code execution: ", "<e>" >>)

\* lines 446, 577-585: temp_file.write raises an exception that is no
\* IOError (UnicodeEncodeError for a code with a lone surrogate): the
\* except clause of the staging lets it pass and the outermost one turns
\* it into a result; the file was created and temp_file_path is None
StageWriteRaises ==
  /\ pc = "stage"
  /\ ReturnWith(FatalError, "None", TRUE, "StagingFailed",
                [hist EXCEPT !.created = TRUE])
  /\ UNCHANGED << callVars, process, returncode, osVars, now, waitStart, kptVars, obsVars >>

\* lines 445-457: IOError when the with block closes (flushes) the file,
\* after temp_file_path was assigned
StageCloseFails ==
  /\ pc = "stage"
  /\ ReturnWith(StagingError, "tmp", TRUE, "StagingFailed",
                [hist EXCEPT !.created = TRUE, !.staged = TRUE])
  /\ UNCHANGED << callVars, process, returncode, osVars, now, waitStart, kptVars, obsVars >>

\* lines 460-467: os.path.exists(temp_file_path)
Verify ==
  /\ pc = "verify"
  /\ UNCHANGED << callVars, process, returncode, osVars, now, waitStart, kptVars, obsVars >>
  /\ IF ~fileExists
     THEN ReturnWith(Rejection(<< "Temporary file was not created" >>),
                     temp_file_path, fileExists, "StagingFailed", hist)
     ELSE /\ pc' = "spawn"
          /\ UNCHANGED << temp_file_path, fileExists, result, hist >>

\* lines 473-481: create_subprocess_exec succeeded; the interpreter runs
\* in its own session and holds the write ends of both pipes
SpawnOk ==
  /\ pc = "spawn"
  /\ process' = TRUE
  /\ pstate' = [pstate EXCEPT ![CHILD] = "running"]
  /\ holds' = [holds EXCEPT ![CHILD] = TRUE]
  /\ \E ig \in BOOLEAN : ignTerm' = [ignTerm EXCEPT ![CHILD] = ig]
  /\ now' = 0
  /\ hist' = [hist EXCEPT !.spawned = TRUE]
  /\ pc' = "communicate"
  /\ UNCHANGED << callVars, temp_file_path, fileExists, returncode, ppid,
                  exitcode, out, err, waitStart, kptVars, obsVars, result >>

\* variant in which the message for a missing interpreter does not name it
SpawnErrors_NoInterpreterName ==
  { << "Command not found" >>,
    << "Permission denied executing code: ",
       "[Errno 13] Permission denied: ", SUPPORTED_LANGUAGES[language].cmd[1] >>,
    << "OS error during execution: ",
       "[Errno 24] Too many open files" >>,
    << "Unexpected error during execution: ",
       "Exception occurred in preexec_fn." >> }

\* the messages of the except clauses of lines 543-575; str(e) is the text
\* of the exception: an OSError of a failed exec names the executable, one
\* of a failed pipe or fork, or the error of preexec_fn, does not
SpawnErrors ==
  { << "Command not found: ", SUPPORTED_LANGUAGES[language].cmd[1],
       ". Please ensure the interpreter is installed." >>,
    << "Permission denied executing code: ",
       "[Errno 13] Permission denied: ", SUPPORTED_LANGUAGES[language].cmd[1] >>,
    << "OS error during execution: ",
       "[Errno 24] Too many open files" >>,
    << "Unexpected error during execution: ",
       "Exception occurred in preexec_fn." >> }

\* lines 543-575: create_subprocess_exec raised FileNotFoundError,
\* PermissionError, OSError or another exception; no process exists
SpawnFails ==
  /\ pc = "spawn"
  /\ \E msg \in SpawnErrors :
       ReturnWith(Rejection(msg), temp_file_path, fileExists, "SpawnFailed", hist)
  /\ UNCHANGED << callVars, process, returncode, osVars, now, waitStart, kptVars, obsVars >>


\* ------------------------------------------------ the snippet's processes
InFlight == pc \in {"communicate", "kpt_exists", "kpt_enum", "kpt_term",
                    "kpt_wait", "kpt_kill", "kpt_pterm", "kpt_pwait",
                    "kpt_pkill", "final_wait"}

\* OS state after process p has died with the given status (negative: by
\* that signal): the interpreter stays a zombie until someone waits for
\* it, a forked process is gone ("exited" by itself or "killed"), the
\* children of p are re-parented to init, the pipe ends of p are closed
DiedState(p, status) ==
  [ pstate |-> [pstate EXCEPT ![p] = IF p = CHILD THEN "zombie"
                                     ELSE IF status < 0 THEN "killed"
                                     ELSE "exited"],
    ppid |-> [q \in Procs |-> IF ppid[q] = p \/ q = p THEN INIT_PID ELSE ppid[q]],
    holds |-> [holds EXCEPT ![p] = FALSE],
    ignTerm |-> [ignTerm EXCEPT ![p] = FALSE],
    exitcode |-> IF p = CHILD THEN status ELSE exitcode ]

Dies(p, status) ==
  /\ pstate' = DiedState(p, status).pstate
  /\ ppid' = DiedState(p, status).ppid
  /\ holds' = DiedState(p, status).holds
  /\ ignTerm' = DiedState(p, status).ignTerm
  /\ exitcode' = DiedState(p, status).exitcode

\* a running process of the snippet forks; the new process inherits the
\* pipes (and may close them) and the signal dispositions (and may change
\* them)
Fork ==
  /\ InFlight
  /\ \E p \in Procs, q \in Procs \ {CHILD} :
       /\ Running(p)
       /\ pstate[q] = "none"
       /\ \A r \in Procs \ {CHILD} : r < q => pstate[r] # "none"
       /\ pstate' = [pstate EXCEPT ![q] = "running"]
       /\ ppid' = [ppid EXCEPT ![q] = p]
       /\ \E h \in (IF holds[p] THEN BOOLEAN ELSE {FALSE}) :
            holds' = [holds EXCEPT ![q] = h]
       /\ \E ig \in BOOLEAN : ignTerm' = [ignTerm EXCEPT ![q] = ig]
  /\ UNCHANGED << callVars, pc, temp_file_path, fileExists, process,
                  returncode, exitcode, out, err, now, waitStart, kptVars, obsVars,
                  result, hist >>

\* a running process of the snippet exits by itself
ProcExit ==
  /\ InFlight
  /\ \E p \in Procs, rc \in ExitCodes :
       /\ Running(p)
       /\ Dies(p, rc)
       /\ hist' = IF p = CHILD /\ pc = "communicate" /\ now < MAX_EXECUTION_TIME
                  THEN [hist EXCEPT !.exitedEarly = TRUE]
                  ELSE hist
  /\ UNCHANGED << callVars, pc, temp_file_path, fileExists, process,
                  returncode, out, err, now, waitStart, kptVars, obsVars, result >>

\* a process holding the pipes writes a character to stdout or stderr
\* while communicate() is reading
Write ==
  /\ pc = "communicate"
  /\ \E p \in Procs, c \in Chars :
       /\ Running(p) /\ holds[p]
       /\ Len(out) + Len(err) < MaxOut
       /\ \/ out' = Append(out, c) /\ err' = err
          \/ err' = Append(err, c) /\ out' = out
  /\ UNCHANGED << callVars, pc, temp_file_path, fileExists, process,
                  returncode, pstate, ppid, holds, ignTerm, exitcode, now,
                  waitStart, kptVars, obsVars, result, hist >>

\* asyncio's child watcher waits for the exited interpreter and records
\* its status in process.returncode
WatcherReap ==
  /\ InFlight
  /\ pstate[CHILD] = "zombie"
  /\ pstate' = [pstate EXCEPT ![CHILD] = "reaped"]
  /\ returncode' = << exitcode >>
  /\ UNCHANGED << callVars, pc, temp_file_path, fileExists, process, ppid,
                  holds, ignTerm, exitcode, out, err, now, waitStart,
                  kptVars, obsVars, result, hist >>

\* the watcher finds that the status was already taken by another
\* waitpid (psutil's parent.wait); asyncio then reports returncode 255
WatcherLost ==
  /\ InFlight
  /\ pstate[CHILD] = "reaped"
  /\ returncode = << >>
  /\ returncode' = << 255 >>
  /\ UNCHANGED << callVars, pc, temp_file_path, fileExists, process, osVars,
                  now, waitStart, kptVars, obsVars, result, hist >>

\* the staged file is removed by someone else (a cleaner of the temp
\* directory) between its creation and the check of line 460
ExternalRemove ==
  /\ pc = "verify"
  /\ fileExists
  /\ fileExists' = FALSE
  /\ UNCHANGED << callVars, pc, temp_file_path, process, returncode, osVars,
                  now, waitStart, kptVars, obsVars, result, hist >>

\* communicate() can return: both pipes at end of file and the exit
\* status recorded
CommunicateReady == PipesAtEOF /\ returncode # << >>

\* one second passes while the call is suspended or blocked in a wait
Tick ==
  /\ now < MaxTime
  /\ \/ /\ pc = "communicate"
        /\ now < MAX_EXECUTION_TIME
        /\ ~CommunicateReady
        /\ pstate[CHILD] # "zombie"
     \/ /\ pc = "kpt_wait"
        /\ now < waitStart + GRACE_PERIOD
        /\ \E i \in 1 .. Len(children) : Running(children[i])
     \/ /\ pc = "kpt_pwait"
        /\ now < waitStart + GRACE_PERIOD
        /\ Running(CHILD)
     \/ /\ pc = "final_wait"
        /\ returncode = << >>
        /\ Running(CHILD)
  /\ now' = now + 1
  /\ UNCHANGED << callVars, pc, temp_file_path, fileExists, process,
                  returncode, osVars, waitStart, kptVars, obsVars, result, hist >>


\* ------------------------------------------------------------- signals
\* what Process.terminate() / Process.kill() on p can do: succeed, raise
\* NoSuchProcess (the pid is gone), or raise another psutil error such as
\* AccessDenied
SignalOutcomes(p) ==
  IF ~pid_exists(p) THEN {"NoSuchProcess"}
  ELSE IF Running(p) THEN {"ok", "AccessDenied"}
  ELSE {"ok"}

\* effect of the signal on the processes: SIGKILL ends a running process,
\* SIGTERM ends it unless it ignores SIGTERM, a zombie is not affected
SendSignal(p, sig, outcome) ==
  /\ outcome \in SignalOutcomes(p)
  /\ IF outcome = "ok" /\ Running(p) /\ (sig = "SIGKILL" \/ ~ignTerm[p])
     THEN Dies(p, IF sig = "SIGKILL" THEN -9 ELSE -15)
     ELSE UNCHANGED << pstate, ppid, holds, ignTerm, exitcode >>

\* variant of the except clauses in which NoSuchProcess is not caught
\* inside the loop and ends it
ChildSignalHandler_Propagates(outcome) ==
  CASE outcome = "ok" -> "continue"
    [] outcome = "NoSuchProcess" -> "abort"
    [] outcome = "AccessDenied" -> "continue"

\* except clauses of the two loops over the children (lines 361-364 and
\* 374-377): every exception is swallowed and the loop goes on
ChildSignalHandler(outcome) ==
  CASE outcome = "ok" -> "continue"
    [] outcome = "NoSuchProcess" -> "continue"
    [] outcome = "AccessDenied" -> "continue"

\* except clauses around parent.terminate() / parent.wait() (lines
\* 384-390): after a successful terminate the parent is waited for, any
\* exception ends the procedure
ParentTerminateHandler(outcome) ==
  CASE outcome = "ok" -> "wait"
    [] outcome = "NoSuchProcess" -> "done"
    [] outcome = "AccessDenied" -> "done"

\* ------------------------------------------------ execute_code, running
\* lines 485-523: communicate() returned before the deadline
Completed ==
  /\ pc = "communicate"
  /\ CommunicateReady
  /\ ReturnWith(CompletedResult(out, err, returncode[1]),
                temp_file_path, fileExists, "Completed", hist)
  /\ UNCHANGED << callVars, process, returncode, osVars, now, waitStart, kptVars, obsVars >>

\* lines 525-530: wait_for raised TimeoutError; communicate() is cancelled
\* and nobody reads the pipes any more
Timeout ==
  /\ pc = "communicate"
  /\ now = MAX_EXECUTION_TIME
  /\ pc' = "kpt_exists"
  /\ atDeadline' = { q \in Forked : Running(q) }
  /\ holds' = [p \in Procs |-> FALSE]
  /\ UNCHANGED << callVars, temp_file_path, fileExists, process, returncode,
                  pstate, ppid, ignTerm, exitcode, out, err, now, waitStart,
                  kptVars, termSent, killSent, result, hist >>

\* ---------------------------------------------------- kill_process_tree
\* variant of the return of kill_process_tree after which execute_code
\* goes back to waiting for communicate()
KptReturns_BackToCommunicate ==
  /\ pc' = "communicate"
  /\ children' = << >>
  /\ idx' = 1
  /\ alive' = << >>
  /\ waitStart' = 0
  /\ atDeadline' = {}
  /\ termSent' = {}
  /\ killSent' = {}

\* kill_process_tree returns (normally or through one of its outer
\* except clauses, lines 392-395): its locals are gone and execute_code
\* goes on with process.wait()
KptReturns ==
  /\ pc' = "final_wait"
  /\ children' = << >>
  /\ idx' = 1
  /\ alive' = << >>
  /\ waitStart' = 0
  /\ atDeadline' = {}
  /\ termSent' = {}
  /\ killSent' = {}

\* lines 349-351
KptPidExists ==
  /\ pc = "kpt_exists"
  /\ IF pid_exists(CHILD)
     THEN pc' = "kpt_enum" /\ UNCHANGED << kptVars, obsVars, waitStart >>
     ELSE KptReturns
  /\ UNCHANGED << callVars, temp_file_path, fileExists, process, returncode,
                  osVars, now, result, hist >>

\* lines 353-354: psutil.Process(pid) raises NoSuchProcess when the pid
\* has gone meanwhile (handled at line 392); otherwise the children are
\* listed once
KptEnumerate ==
  /\ pc = "kpt_enum"
  /\ IF ~pid_exists(CHILD)
     THEN KptReturns /\ hist' = hist
     ELSE LET cs == SetToSortedSeq(ChildrenRecursive(CHILD, pstate, ppid))
          IN  /\ children' = cs
              /\ idx' = 1
              /\ alive' = alive
              /\ pc' = IF cs = << >> THEN "kpt_wait" ELSE "kpt_term"
              /\ waitStart' = now
              /\ hist' = hist
              /\ UNCHANGED obsVars
  /\ UNCHANGED << callVars, temp_file_path, fileExists, process, returncode,
                  osVars, now, result >>

\* lines 357-364: child.terminate() for the next listed child
KptTerminateChild ==
  /\ pc = "kpt_term"
  /\ idx <= Len(children)
  /\ \E outcome \in SignalOutcomes(children[idx]) :
       /\ SendSignal(children[idx], "SIGTERM", outcome)
       /\ IF ChildSignalHandler(outcome) = "continue"
          THEN /\ idx' = idx + 1
               /\ pc' = IF idx + 1 > Len(children) THEN "kpt_wait" ELSE "kpt_term"
               /\ waitStart' = now
               /\ termSent' = termSent \cup {children[idx]}
               /\ UNCHANGED << children, alive, atDeadline, killSent >>
               /\ hist' = [hist EXCEPT !.noSuch = @ \/ outcome = "NoSuchProcess",
                               !.denied = @ \/ outcome = "AccessDenied"]
          ELSE /\ KptReturns
               /\ hist' = [hist EXCEPT !.noSuch = @ \/ outcome = "NoSuchProcess",
                               !.denied = @ \/ outcome = "AccessDenied",
                                       !.loopAborted = TRUE]
  /\ UNCHANGED << callVars, temp_file_path, fileExists, process, returncode,
                  out, err, now, result >>

\* variant of the wait that does not wait: the children still running
\* right after the terminate loop are killed at once
KptWaitProcs_NoGrace ==
  /\ pc = "kpt_wait"
  /\ LET a == SetToSortedSeq({ c \in SeqRange(children) : Running(c) })
     IN  /\ alive' = a
         /\ idx' = 1
         /\ pc' = IF a = << >> THEN "kpt_pterm" ELSE "kpt_kill"
  /\ UNCHANGED << callVars, temp_file_path, fileExists, process, returncode,
                  osVars, now, waitStart, children, obsVars, result, hist >>

\* line 367: psutil.wait_procs(children, timeout=3) returns when every
\* listed child is gone or the 3 seconds are over
KptWaitProcs ==
  /\ pc = "kpt_wait"
  /\ \/ \A i \in 1 .. Len(children) : ~Running(children[i])
     \/ now >= waitStart + GRACE_PERIOD
  /\ LET a == SetToSortedSeq({ c \in SeqRange(children) : Running(c) })
     IN  /\ alive' = a
         /\ idx' = 1
         /\ pc' = IF a = << >> THEN "kpt_pterm" ELSE "kpt_kill"
  /\ UNCHANGED << callVars, temp_file_path, fileExists, process, returncode,
                  osVars, now, waitStart, children, obsVars, result, hist >>

\* lines 370-377: child.kill() for the next child still alive
KptKillChild ==
  /\ pc = "kpt_kill"
  /\ idx <= Len(alive)
  /\ \E outcome \in SignalOutcomes(alive[idx]) :
       /\ SendSignal(alive[idx], "SIGKILL", outcome)
       /\ IF ChildSignalHandler(outcome) = "continue"
          THEN /\ idx' = idx + 1
               /\ pc' = IF idx + 1 > Len(alive) THEN "kpt_pterm" ELSE "kpt_kill"
               /\ killSent' = killSent \cup {alive[idx]}
               /\ UNCHANGED << children, alive, waitStart, atDeadline, termSent >>
               /\ hist' = [hist EXCEPT !.noSuch = @ \/ outcome = "NoSuchProcess",
                               !.denied = @ \/ outcome = "AccessDenied"]
          ELSE /\ KptReturns
               /\ hist' = [hist EXCEPT !.noSuch = @ \/ outcome = "NoSuchProcess",
                               !.denied = @ \/ outcome = "AccessDenied",
                                       !.loopAborted = TRUE]
  /\ UNCHANGED << callVars, temp_file_path, fileExists, process, returncode,
                  out, err, now, result >>

\* lines 380-381, 387-390: parent.terminate()
KptTerminateParent ==
  /\ pc = "kpt_pterm"
  /\ \E outcome \in SignalOutcomes(CHILD) :
       /\ SendSignal(CHILD, "SIGTERM", outcome)
       /\ hist' = [hist EXCEPT !.noSuch = @ \/ outcome = "NoSuchProcess",
                               !.denied = @ \/ outcome = "AccessDenied"]
       /\ IF ParentTerminateHandler(outcome) = "wait"
          THEN /\ pc' = "kpt_pwait"
               /\ waitStart' = now
               /\ termSent' = termSent \cup {CHILD}
               /\ UNCHANGED << kptVars, atDeadline, killSent >>
          ELSE KptReturns
  /\ UNCHANGED << callVars, temp_file_path, fileExists, process, returncode,
                  out, err, now, result >>

\* lines 382-384: parent.wait(timeout=3); psutil waits with waitpid, which
\* takes the exit status of a zombie; TimeoutExpired after 3 seconds
KptParentWait ==
  /\ pc = "kpt_pwait"
  /\ \/ /\ pstate[CHILD] = "zombie"
        /\ pstate' = [pstate EXCEPT ![CHILD] = "reaped"]
        /\ KptReturns
     \/ /\ pstate[CHILD] = "reaped"
        /\ pstate' = pstate
        /\ KptReturns
     \/ /\ Running(CHILD)
        /\ now >= waitStart + GRACE_PERIOD
        /\ pstate' = pstate
        /\ pc' = "kpt_pkill"
        /\ UNCHANGED << kptVars, obsVars, waitStart >>
  /\ UNCHANGED << callVars, temp_file_path, fileExists, process, returncode,
                  ppid, holds, ignTerm, exitcode, out, err, now, result, hist >>

\* lines 385-386, 392-395: parent.kill() inside the TimeoutExpired
\* handler; an exception it raises is caught by the outer handlers
KptKillParent ==
  /\ pc = "kpt_pkill"
  /\ \E outcome \in SignalOutcomes(CHILD) :
       /\ SendSignal(CHILD, "SIGKILL", outcome)
       /\ hist' = [hist EXCEPT !.noSuch = @ \/ outcome = "NoSuchProcess",
                               !.denied = @ \/ outcome = "AccessDenied"]
  /\ KptReturns
  /\ UNCHANGED << callVars, temp_file_path, fileExists, process, returncode,
                  out, err, now, result >>

\* ------------------------------------------- execute_code, after the kill
\* lines 532-541: process.wait() returns once the exit status is recorded
FinalWait ==
  /\ pc = "final_wait"
  /\ returncode # << >>
  /\ ReturnWith(TimeoutResult, temp_file_path, fileExists, "TimedOut", hist)
  /\ UNCHANGED << callVars, process, returncode, osVars, now, waitStart, kptVars, obsVars >>

\* lines 534-541: process.wait() raises; the exception is logged and the
\* timeout result is returned all the same
FinalWaitRaises ==
  /\ pc = "final_wait"
  /\ returncode = << >>
  /\ ReturnWith(TimeoutResult, temp_file_path, fileExists, "TimedOut",
                [hist EXCEPT !.waitRaised = TRUE])
  /\ UNCHANGED << callVars, process, returncode, osVars, now, waitStart, kptVars, obsVars >>

Next ==
  \/ Validate
  \/ StageOk
  \/ StageCreateFails
  \/ StageWriteFails
  \/ StageWriteRaises
  \/ StageCloseFails
  \/ Verify
  \/ SpawnOk
  \/ SpawnFails
  \/ Fork
  \/ ProcExit
  \/ Write
  \/ WatcherReap
  \/ WatcherLost
  \/ ExternalRemove
  \/ Tick
  \/ Completed
  \/ Timeout
  \/ KptPidExists
  \/ KptEnumerate
  \/ KptTerminateChild
  \/ KptWaitProcs
  \/ KptKillChild
  \/ KptTerminateParent
  \/ KptParentWait
  \/ KptKillParent
  \/ FinalWait
  \/ FinalWaitRaises

Spec == Init /\ [][Next]_vars

\* ------------------------------------------------------------------------
\* Direct calls of the helper functions and of single steps of execute_code
\* ------------------------------------------------------------------------
\* the language identifiers of the direct calls
UnitLanguages ==
  {"python", "javascript", "bash", "shell", "Python", "BASH", "js", "ruby", ""}

\* a decoded stream of n characters; the characters beyond
\* MAX_OUTPUT_LENGTH differ from those before
Stream(n) == [i \in 1 .. n |-> IF i <= MAX_OUTPUT_LENGTH THEN "a" ELSE "b"]

\* decoded streams around the limit
Streams ==
  { Stream(n) : n \in {0, 1, MAX_OUTPUT_LENGTH - 1, MAX_OUTPUT_LENGTH,
                       MAX_OUTPUT_LENGTH + 1, MAX_OUTPUT_LENGTH + Len(OUT_MARKER),
                       MAX_OUTPUT_LENGTH + Len(ERR_MARKER),
                       MAX_OUTPUT_LENGTH + Len(ERR_MARKER) + 1} }

\* a short str that matches no pattern
Benign == Snippet(TRUE, 1, {})

\* the inputs of the direct calls: a code for is_code_safe, a language and
\* a code for the checks of execute_code, a path that is None or names a
\* file that is there or is not, or two decoded streams
UnitInit ==
  /\ \/ /\ code \in SafeCodes
        /\ language = "bash"
        /\ temp_file_path = "None" /\ fileExists = FALSE
        /\ out = << >> /\ err = << >>
     \/ /\ code = Benign
        /\ language \in UnitLanguages
        /\ temp_file_path = "None" /\ fileExists = FALSE
        /\ out = << >> /\ err = << >>
     \/ /\ code = Benign
        /\ language = "bash"
        /\ temp_file_path \in {"None", "tmp"} /\ fileExists \in BOOLEAN
        /\ out = << >> /\ err = << >>
     \/ /\ code = Benign
        /\ language = "bash"
        /\ temp_file_path = "None" /\ fileExists = FALSE
        /\ out \in Streams /\ err \in Streams
  /\ pc = "validate"
  /\ process = FALSE
  /\ returncode = << >>
  /\ pstate = NoProc
  /\ ppid = [p \in Procs |-> INIT_PID]
  /\ holds = [p \in Procs |-> FALSE]
  /\ ignTerm = [p \in Procs |-> FALSE]
  /\ exitcode = 0
  /\ now = 0
  /\ waitStart = 0
  /\ children = << >>
  /\ idx = 1
  /\ alive = << >>
  /\ result = NoResult
  /\ atDeadline = {}
  /\ termSent = {}
  /\ killSent = {}
  /\ hist = InitHist

\* is_code_safe(c) is called and returns its pair: first on the code of
\* the request, then again on a code it was called on or on another one
IsCodeSafeCall ==
  /\ pc \in {"validate", "safe_returned"}
  /\ hist.safeCalls < MaxCalls
  /\ \E c \in (IF pc = "validate" THEN {code}
                ELSE { x[1] : x \in hist.seen } \cup {Benign}) :
       LET r == [is_safe |-> is_code_safe(c)[1], reason |-> is_code_safe(c)[2]]
       IN  /\ code' = c
           /\ result' = r
           /\ hist' = [hist EXCEPT !.safeCalls = @ + 1,
                                   !.seen = @ \cup {<< c, r >>}]
  /\ pc' = "safe_returned"
  /\ UNCHANGED << language, temp_file_path, fileExists, process, returncode,
                  osVars, now, waitStart, kptVars, obsVars >>

\* lines 501-508: the truncation step on the two decoded streams, and once
\* more on what it returned
TruncateCall ==
  /\ pc \in {"validate", "truncated"}
  /\ result' = IF pc = "validate"
               THEN [stdout_str |-> Truncate(out, OUT_MARKER),
                     stderr_str |-> Truncate(err, ERR_MARKER)]
               ELSE [stdout_str |-> Truncate(result.stdout_str, OUT_MARKER),
                     stderr_str |-> Truncate(result.stderr_str, ERR_MARKER)]
  /\ pc' = IF pc = "validate" THEN "truncated" ELSE "retruncated"
  /\ UNCHANGED << callVars, temp_file_path, fileExists, process, returncode,
                  osVars, now, waitStart, kptVars, obsVars, hist >>

\* cleanup_temp_file(temp_file_path) is called, a first and a second time;
\* what made os.unlink fail the first time is still there the second time
CleanupCall ==
  /\ pc \in {"validate", "cleaned"}
  /\ hist.cleanupCalls < 2
  /\ \E unlinkOk \in (IF hist.unlinkFailed THEN {FALSE} ELSE BOOLEAN) :
       /\ fileExists' = cleanup_temp_file(temp_file_path, fileExists, unlinkOk)
       /\ result' = IF CleanupRaises(temp_file_path, fileExists, unlinkOk)
                    THEN Raised
                    ELSE [returned |-> "None"]
       /\ hist' = [hist EXCEPT
                     !.cleanupCalls = @ + 1,
                     !.unlinked = @ \/ (temp_file_path # "None" /\ fileExists /\ unlinkOk),
                     !.unlinkFailed = @ \/ (temp_file_path # "None" /\ fileExists /\ ~unlinkOk)]
  /\ pc' = "cleaned"
  /\ UNCHANGED << callVars, temp_file_path, process, returncode, osVars, now,
                  waitStart, kptVars, obsVars >>

UnitNext ==
  \/ IsCodeSafeCall
  \/ CleanupCall
  \/ TruncateCall
  \/ (temp_file_path = "None" /\ Validate)

UnitSpec == UnitInit /\ [][UnitNext]_vars


\* ------------------------------------------------------------------------
\* Concurrent calls of execute_code
\* ------------------------------------------------------------------------
\* Two calls of execute_code run as tasks of one event loop, each with a
\* valid request. Every variable that is a local of a call holds one value
\* per call; the file system is the set of names that exist in the temp
\* directory; the process table maps each process id to its state, and a
\* process id is free again once its process has been waited for.
\*   temp_file_path[c], process[c] (the pid, 0 for None), returncode[c],
\*   children[c], idx[c], alive[c] (the Process object `parent`, 0 when it
\*   is stale), result[c], pc[c]            locals of call c
\*   fileExists                             the names on disk
\*   pstate[p], ppid[p], exitcode[p]        the process table
\*   holds[p]                               the call whose pipes p holds, or 0
\*   hist                                   who created what (history only)
Calls == {1, 2}
Names == {"tmpA", "tmpB"}
Pids == 1 .. MaxPids

concFixed == << language, code, out, err, now, waitStart, ignTerm,
                atDeadline, termSent, killSent >>

ConcInit ==
  /\ language = "bash"
  /\ code = Snippet(TRUE, 1, {})
  /\ pc = [c \in Calls |-> "stage"]
  /\ temp_file_path = [c \in Calls |-> "None"]
  /\ fileExists = {}
  /\ process = [c \in Calls |-> 0]
  /\ returncode = [c \in Calls |-> << >>]
  /\ pstate = [p \in Pids |-> "none"]
  /\ ppid = [p \in Pids |-> INIT_PID]
  /\ holds = [p \in Pids |-> 0]
  /\ ignTerm = [p \in Pids |-> FALSE]
  /\ exitcode = [p \in Pids |-> 0]
  /\ out = << >>
  /\ err = << >>
  /\ now = 0
  /\ waitStart = 0
  /\ children = [c \in Calls |-> << >>]
  /\ idx = [c \in Calls |-> 1]
  /\ alive = [c \in Calls |-> 0]
  /\ result = [c \in Calls |-> NoResult]
  /\ atDeadline = {}
  /\ termSent = {}
  /\ killSent = {}
  /\ hist = [ owner |-> [p \in Pids |-> 0],       \* the call in whose tree p was born
              fileOwner |-> [n \in Names |-> 0],  \* the call that staged n
              forked |-> [c \in Calls |-> FALSE], \* the interpreter of c has forked
              crossSignal |-> FALSE,  \* a call signalled a process of another call
              crossUnlink |-> FALSE ] \* a call removed a file of another call

RECURSIVE ConcDescendants(_, _, _)
ConcDescendants(p, pp, n) ==
  IF n = 0 THEN {}
  ELSE LET direct == { q \in Pids : pp[q] = p }
       IN  direct \cup UNION { ConcDescendants(q, pp, n - 1) : q \in direct }

\* psutil.pid_exists(pid) in the process table
ConcPidExists(p) == p \in Pids /\ pstate[p] \in {"running", "zombie"}

\* the event loop is the parent of p and has not waited for it yet
ConcAwaited(p) == \E c \in Calls : process[c] = p /\ returncode[c] = << >>

\* both pipes of call c are at end of file and its exit status is recorded
ConcCommunicateReady(c) ==
  /\ returncode[c] # << >>
  /\ \A q \in Pids : ~(pstate[q] = "running" /\ holds[q] = c)

\* kill_process_tree has no await: from its first line to its return the
\* event loop runs nothing else, so call c can take a step only while no
\* other call is inside kill_process_tree (processes and the thread of the
\* child watcher go on)
ConcLoopFree(c) ==
  \A d \in Calls \ {c} : pc[d] \notin {"kpt_enum", "kpt_term", "kpt_pterm"}

\* a psutil.Process object is bound to one process: once the process is
\* gone its methods raise NoSuchProcess, whoever has the pid now
ConcStale(refs, p) ==
  [c \in Calls |-> [i \in 1 .. Len(refs[c]) |->
                      IF refs[c][i] = p THEN 0 ELSE refs[c][i]]]

\* process p dies with the given status: an interpreter the event loop
\* still has to wait for becomes a zombie, any other process is waited for
\* by its parent or by init at once and its pid is free; h is the history
\* up to the death
ConcDies(p, status, h) ==
  /\ pstate' = [pstate EXCEPT ![p] = IF ConcAwaited(p) THEN "zombie" ELSE "none"]
  /\ ppid' = [q \in Pids |-> IF ppid[q] = p \/ q = p THEN INIT_PID ELSE ppid[q]]
  /\ holds' = [holds EXCEPT ![p] = 0]
  /\ exitcode' = [exitcode EXCEPT ![p] = IF ConcAwaited(p) THEN status ELSE 0]
  /\ children' = IF ConcAwaited(p) THEN children ELSE ConcStale(children, p)
  /\ alive' = IF ConcAwaited(p) THEN alive
              ELSE [c \in Calls |-> IF alive[c] = p THEN 0 ELSE alive[c]]
  /\ hist' = [h EXCEPT !.owner[p] = IF ConcAwaited(p) THEN @ ELSE 0]

\* the finally clause of call c: cleanup_temp_file(temp_file_path[c])
ConcReturn(c, res) ==
  /\ result' = [result EXCEPT ![c] = res]
  /\ pc' = [pc EXCEPT ![c] = "returned"]
  /\ \E unlinkOk \in BOOLEAN :
       LET path == temp_file_path[c]
           left == cleanup_temp_file(path, path \in fileExists, unlinkOk)
       IN  /\ fileExists' = IF left THEN fileExists ELSE fileExists \ {path}
           /\ hist' = [hist EXCEPT
                         !.crossUnlink = @ \/ (path \in fileExists /\ ~left
                                                 /\ hist.fileOwner[path] # c),
                         !.fileOwner = [n \in Names |->
                                          IF n = path /\ ~left THEN 0 ELSE @[n]]]

\* lines 440-447: mkstemp creates a file under a name that is not in use
ConcStage(c) ==
  /\ pc[c] = "stage"
  /\ ConcLoopFree(c)
  /\ \E n \in Names \ fileExists :
       /\ fileExists' = fileExists \cup {n}
       /\ temp_file_path' = [temp_file_path EXCEPT ![c] = n]
       /\ hist' = [hist EXCEPT !.fileOwner[n] = c]
  /\ pc' = [pc EXCEPT ![c] = "spawn"]
  /\ UNCHANGED << concFixed, process, returncode, pstate, ppid, holds,
                  exitcode, children, idx, alive, result >>

\* lines 473-481: the operating system gives the interpreter a free pid
ConcSpawn(c) ==
  /\ pc[c] = "spawn"
  /\ ConcLoopFree(c)
  /\ \E p \in Pids :
       /\ pstate[p] = "none"
       /\ pstate' = [pstate EXCEPT ![p] = "running"]
       /\ ppid' = [ppid EXCEPT ![p] = INIT_PID]
       /\ holds' = [holds EXCEPT ![p] = c]
       /\ process' = [process EXCEPT ![c] = p]
       /\ hist' = [hist EXCEPT !.owner[p] = c]
  /\ pc' = [pc EXCEPT ![c] = "communicate"]
  /\ UNCHANGED << concFixed, temp_file_path, fileExists, returncode,
                  exitcode, children, idx, alive, result >>

\* the interpreter of a call in flight forks (once per call); the new
\* process keeps the pipes or closes them
ConcFork ==
  /\ \E p \in Pids, q \in Pids :
       /\ pstate[p] = "running"
       /\ pstate[q] = "none"
       /\ ConcAwaited(p)
       /\ ~hist.forked[hist.owner[p]]
       /\ pstate' = [pstate EXCEPT ![q] = "running"]
       /\ ppid' = [ppid EXCEPT ![q] = p]
       /\ \E h \in {holds[p], 0} : holds' = [holds EXCEPT ![q] = h]
       /\ hist' = [hist EXCEPT !.owner[q] = hist.owner[p],
                               !.forked[hist.owner[p]] = TRUE]
  /\ UNCHANGED << concFixed, pc, temp_file_path, fileExists, process,
                  returncode, exitcode, children, idx, alive, result >>

\* a process of a snippet exits by itself
ConcProcExit ==
  /\ \E p \in Pids :
       /\ pstate[p] = "running"
       /\ ConcDies(p, 0, hist)
  /\ UNCHANGED << concFixed, pc, temp_file_path, fileExists, process,
                  returncode, idx, result >>

\* asyncio's child watcher waits for the exited interpreter of call c and
\* records its status; the pid is free from then on
ConcWatcherReap(c) ==
  /\ process[c] # 0
  /\ pstate[process[c]] = "zombie"
  /\ returncode[c] = << >>
  /\ returncode' = [returncode EXCEPT ![c] = << exitcode[process[c]] >>]
  /\ pstate' = [pstate EXCEPT ![process[c]] = "none"]
  /\ children' = ConcStale(children, process[c])
  /\ alive' = [d \in Calls |-> IF alive[d] = process[c] THEN 0 ELSE alive[d]]
  /\ exitcode' = [exitcode EXCEPT ![process[c]] = 0]
  /\ hist' = [hist EXCEPT !.owner[process[c]] = 0]
  /\ UNCHANGED << concFixed, pc, temp_file_path, fileExists, process, ppid,
                  holds, idx, result >>

\* lines 485-523 and 586-589
ConcCompleted(c) ==
  /\ pc[c] = "communicate"
  /\ ConcLoopFree(c)
  /\ ConcCommunicateReady(c)
  /\ ConcReturn(c, CompletedResult(<< >>, << >>, returncode[c][1]))
  /\ UNCHANGED << concFixed, temp_file_path, process, returncode, pstate,
                  ppid, holds, exitcode, children, idx, alive >>

\* lines 525-530: the deadline of call c passes before communicate() is
\* done: the interpreter is still running, or it was waited for long ago
\* and another process holds the pipes
ConcTimeout(c) ==
  /\ pc[c] = "communicate"
  /\ ConcLoopFree(c)
  /\ ~ConcCommunicateReady(c)
  /\ returncode[c] = << >> => pstate[process[c]] = "running"
  /\ pc' = [pc EXCEPT ![c] = "kpt_exists"]
  /\ UNCHANGED << concFixed, temp_file_path, fileExists, process,
                  returncode, pstate, ppid, holds, exitcode, children, idx,
                  alive, result, hist >>

\* lines 349-351: psutil.pid_exists(pid) with the pid of call c's interpreter
ConcKptPidExists(c) ==
  /\ pc[c] = "kpt_exists"
  /\ ConcLoopFree(c)
  /\ pc' = [pc EXCEPT ![c] = IF ConcPidExists(process[c])
                             THEN "kpt_enum" ELSE "final_wait"]
  /\ UNCHANGED << concFixed, temp_file_path, fileExists, process,
                  returncode, pstate, ppid, holds, exitcode, children, idx,
                  alive, result, hist >>

\* lines 353-354: psutil.Process(pid) is the process that has the pid now;
\* its live descendants are listed
ConcKptEnumerate(c) ==
  /\ pc[c] = "kpt_enum"
  /\ IF ~ConcPidExists(process[c])
     THEN /\ pc' = [pc EXCEPT ![c] = "final_wait"]
          /\ UNCHANGED << children, idx, alive >>
     ELSE LET cs == SetToSortedSeq(
                      { q \in ConcDescendants(process[c], ppid, MaxPids) :
                          pstate[q] = "running" })
          IN  /\ alive' = [alive EXCEPT ![c] = process[c]]
              /\ children' = [children EXCEPT ![c] = cs]
              /\ idx' = [idx EXCEPT ![c] = 1]
              /\ pc' = [pc EXCEPT ![c] = IF cs = << >> THEN "kpt_pterm"
                                         ELSE "kpt_term"]
  /\ UNCHANGED << concFixed, temp_file_path, fileExists, process,
                  returncode, pstate, ppid, holds, exitcode, result,
                  hist >>

\* terminate() of call c on the Process object p (0: the object is stale
\* and the method raises NoSuchProcess, which is swallowed)
ConcSignal(c, p) ==
  IF p # 0 /\ pstate[p] = "running"
  THEN ConcDies(p, -15, [hist EXCEPT !.crossSignal = @ \/ hist.owner[p] # c])
  ELSE UNCHANGED << pstate, ppid, holds, exitcode, children, alive, hist >>

\* lines 357-377: child.terminate() for the next listed child; every
\* process of this model dies of SIGTERM, so wait_procs leaves none alive
\* for the kill loop
ConcKptTerminateChild(c) ==
  /\ pc[c] = "kpt_term"
  /\ idx[c] <= Len(children[c])
  /\ ConcSignal(c, children[c][idx[c]])
  /\ idx' = [idx EXCEPT ![c] = @ + 1]
  /\ pc' = [pc EXCEPT ![c] = IF idx[c] + 1 > Len(children[c])
                             THEN "kpt_pterm" ELSE "kpt_term"]
  /\ UNCHANGED << concFixed, temp_file_path, fileExists, process,
                  returncode, result >>

\* lines 380-390: parent.terminate() and parent.wait(timeout=3)
ConcKptTerminateParent(c) ==
  /\ pc[c] = "kpt_pterm"
  /\ ConcSignal(c, alive[c])
  /\ pc' = [pc EXCEPT ![c] = "final_wait"]
  /\ UNCHANGED << concFixed, temp_file_path, fileExists, process,
                  returncode, idx, result >>

\* lines 532-541 and 586-589
ConcFinalWait(c) ==
  /\ pc[c] = "final_wait"
  /\ ConcLoopFree(c)
  /\ returncode[c] # << >>
  /\ ConcReturn(c, TimeoutResult)
  /\ children' = [children EXCEPT ![c] = << >>]
  /\ idx' = [idx EXCEPT ![c] = 1]
  /\ alive' = [alive EXCEPT ![c] = 0]
  /\ UNCHANGED << concFixed, temp_file_path, process, returncode, pstate,
                  ppid, holds, exitcode >>

ConcNext ==
  \/ \E c \in Calls : ConcStage(c)
  \/ \E c \in Calls : ConcSpawn(c)
  \/ ConcFork
  \/ ConcProcExit
  \/ \E c \in Calls : ConcWatcherReap(c)
  \/ \E c \in Calls : ConcCompleted(c)
  \/ \E c \in Calls : ConcTimeout(c)
  \/ \E c \in Calls : ConcKptPidExists(c)
  \/ \E c \in Calls : ConcKptEnumerate(c)
  \/ \E c \in Calls : ConcKptTerminateChild(c)
  \/ \E c \in Calls : ConcKptTerminateParent(c)
  \/ \E c \in Calls : ConcFinalWait(c)

ConcSpec == ConcInit /\ [][ConcNext]_vars

\* ------------------------------------------------------------------------
\* The capture of the child's output
\* ------------------------------------------------------------------------
\* One call between the spawn and the end of communicate(), with the bytes
\* counted instead of kept. Here out and err are records of byte counts:
\* written by the child, buffered in the StreamReader, and collected by
\* communicate(); result holds the lengths of the pair that line 485
\* receives.

\* line 477: the limit handed to create_subprocess_exec
CAPTURE_LIMIT == 1024 * 1024

\* the child writes in chunks of half the limit
CHUNK == CAPTURE_LIMIT \div 2

capFixed == << language, code, temp_file_path, fileExists, process, ppid,
               holds, ignTerm, exitcode, waitStart, children, idx, alive,
               atDeadline, termSent, killSent, hist >>

NoBytes == [written |-> 0, buffered |-> 0, collected |-> 0]

CapInit ==
  /\ language = "python"
  /\ code = Benign
  /\ pc = "communicate"
  /\ temp_file_path = "tmp"
  /\ fileExists = TRUE
  /\ process = TRUE
  /\ returncode = << >>
  /\ pstate = [NoProc EXCEPT ![CHILD] = "running"]
  /\ ppid = [p \in Procs |-> INIT_PID]
  /\ holds = [p \in Procs |-> p = CHILD]
  /\ ignTerm = [p \in Procs |-> FALSE]
  /\ exitcode = 0
  /\ out = NoBytes
  /\ err = NoBytes
  /\ now = 0
  /\ waitStart = 0
  /\ children = << >>
  /\ idx = 1
  /\ alive = << >>
  /\ result = NoResult
  /\ atDeadline = {}
  /\ termSent = {}
  /\ killSent = {}
  /\ hist = [InitHist EXCEPT !.created = TRUE, !.staged = TRUE, !.spawned = TRUE]

\* the child writes a chunk to a pipe and the transport feeds it to the
\* StreamReader; the transport stops reading the pipe while the buffer
\* holds more than twice the limit
CapFeed(b) ==
  /\ b.written < MaxChunks * CHUNK
  /\ b.buffered <= 2 * CAPTURE_LIMIT
  /\ pstate[CHILD] = "running"

CapWriteOut ==
  /\ pc = "communicate"
  /\ CapFeed(out)
  /\ out' = [out EXCEPT !.written = @ + CHUNK, !.buffered = @ + CHUNK]
  /\ UNCHANGED << capFixed, pc, err, pstate, returncode, now, result >>

CapWriteErr ==
  /\ pc = "communicate"
  /\ CapFeed(err)
  /\ err' = [err EXCEPT !.written = @ + CHUNK, !.buffered = @ + CHUNK]
  /\ UNCHANGED << capFixed, pc, out, pstate, returncode, now, result >>

\* communicate() reads a stream to its end with read(): each round takes
\* at most limit bytes out of the buffer and appends them to the blocks
\* it returns joined at end of file
CapCollect(b) ==
  LET n == IF b.buffered < CAPTURE_LIMIT THEN b.buffered ELSE CAPTURE_LIMIT
  IN  [b EXCEPT !.buffered = @ - n, !.collected = @ + n]

CapReadOut ==
  /\ pc = "communicate"
  /\ out.buffered > 0
  /\ out' = CapCollect(out)
  /\ UNCHANGED << capFixed, pc, err, pstate, returncode, now, result >>

CapReadErr ==
  /\ pc = "communicate"
  /\ err.buffered > 0
  /\ err' = CapCollect(err)
  /\ UNCHANGED << capFixed, pc, out, pstate, returncode, now, result >>

\* the child exits and the child watcher reaps it
CapExit ==
  /\ pc = "communicate"
  /\ pstate[CHILD] = "running"
  /\ \E status \in ExitCodes :
       /\ pstate' = [pstate EXCEPT ![CHILD] = "reaped"]
       /\ returncode' = << status >>
  /\ UNCHANGED << capFixed, pc, out, err, now, result >>

CapTick ==
  /\ pc = "communicate"
  /\ now < MAX_EXECUTION_TIME
  /\ now' = now + 1
  /\ UNCHANGED << capFixed, pc, out, err, pstate, returncode, result >>

\* lines 485-488: communicate() returns the two byte strings once both
\* streams are at end of file and the child has exited
CapCompleted ==
  /\ pc = "communicate"
  /\ returncode # << >>
  /\ out.buffered = 0 /\ err.buffered = 0
  /\ result' = [stdout |-> out.collected, stderr |-> err.collected,
                return_code |-> returncode[1]]
  /\ pc' = "decode"
  /\ UNCHANGED << capFixed, out, err, pstate, returncode, now >>

\* line 525: the deadline fires and cancels communicate()
CapTimeout ==
  /\ pc = "communicate"
  /\ now >= MAX_EXECUTION_TIME
  /\ result' = NoResult
  /\ pc' = "kpt_exists"
  /\ UNCHANGED << capFixed, out, err, pstate, returncode, now >>

CapNext ==
  \/ CapWriteOut
  \/ CapWriteErr
  \/ CapReadOut
  \/ CapReadErr
  \/ CapExit
  \/ CapTick
  \/ CapCompleted
  \/ CapTimeout

CaptureSpec == CapInit /\ [][CapNext]_vars

\* ------------------------------------------------------------------------
\* The handler of chat messages
\* ------------------------------------------------------------------------
\* handle_eval_message on one text message. Here code is the text of the
\* update, language the identifier the handler passes on, result what the
\* handler holds (the tuple of parse_eval_message, then the result of
\* execute_code with the command it ran), and out the replies it sent.
\*
\* A text is its first five characters (prefix), what follows them up to
\* the first white space (glued), the words of the rest of the first line
\* (head) and the lines after the first, each a sequence of words (tail).
\* White space is kept as word and line boundaries only.
Prefixes == {"?eval", "!eval", "?ping", "!ping", "hello", "/eval"}
Words == {"js", "Python", "print(1)"}

RECURSIVE SeqsUpTo(_, _)
SeqsUpTo(S, n) ==
  IF n = 0 THEN {<< >>}
  ELSE SeqsUpTo(S, n - 1) \cup
       { Append(q, x) : q \in { r \in SeqsUpTo(S, n - 1) : Len(r) = n - 1 }, x \in S }

EmptyText == [prefix |-> "", glued |-> "", head |-> << >>, tail |-> << >>]

Messages ==
  {EmptyText} \cup
  [prefix : Prefixes, glued : {"", "uate"}, head : SeqsUpTo(Words, MaxWords),
   tail : SeqsUpTo(SeqsUpTo(Words, 1), MaxLines)]

USAGE == "Usage: ?eval <language> <code> or !eval <language> <code>"
PROVIDE_BOTH == "Please provide both language and code."
NO_CODE == "No code provided to execute."

RECURSIVE Flatten(_)
Flatten(ls) == IF ls = << >> THEN << >> ELSE Head(ls) \o Flatten(Tail(ls))

Parsed(valid, lang, c, msg) ==
  [is_valid |-> valid, command_or_language |-> lang, code |-> c,
   error_message |-> msg]

\* lines 879-923
parse_eval_message(m) ==
  IF m = EmptyText THEN Parsed(FALSE, "None", "None", "Invalid message")
  ELSE IF m.prefix \in {"?ping", "!ping"} THEN Parsed(TRUE, "ping", "None", "")
  ELSE IF m.prefix \notin {"?eval", "!eval"}
       THEN Parsed(FALSE, "None", "None", "Not an eval message")
  ELSE
    LET parts == (IF m.glued = "" THEN << >> ELSE << m.glued >>)
                   \o m.head \o Flatten(m.tail)
        first_line_parts == << m.prefix >> \o m.head
        multiline == Len(m.tail) >= 1 /\ Len(first_line_parts) >= 2
        lang == IF multiline THEN Lower(first_line_parts[2]) ELSE Lower(parts[1])
        c == IF multiline THEN m.tail ELSE << Tail(parts) >>
    IN  IF parts = << >> THEN Parsed(FALSE, "None", "None", USAGE)
        ELSE IF Len(parts) < 2 THEN Parsed(FALSE, "None", "None", PROVIDE_BOTH)
        ELSE IF Flatten(c) = << >> THEN Parsed(FALSE, "None", "None", NO_CODE)
        ELSE Parsed(TRUE, lang, c, "")

CMD_USAGE == "Usage: /eval <language> <code>"
CMD_PROVIDE_BOTH == "Please provide both language and code. Usage: /eval <language> <code>"

\* lines 774-803, on the text of a /eval command; args are the words
\* after the command
validate_eval_args(m) ==
  LET args == m.head \o Flatten(m.tail)
      first_line_parts == << m.prefix >> \o m.head
      multiline == Len(m.tail) >= 1 /\ Len(first_line_parts) >= 2
      lang == IF multiline THEN Lower(first_line_parts[2]) ELSE Lower(args[1])
      c == IF multiline THEN m.tail ELSE << Tail(args) >>
  IN  IF args = << >> THEN Parsed(FALSE, "None", "None", CMD_USAGE)
      ELSE IF Len(args) < 2 THEN Parsed(FALSE, "None", "None", CMD_PROVIDE_BOTH)
      ELSE IF Flatten(c) = << >> THEN Parsed(FALSE, "None", "None", NO_CODE)
      ELSE Parsed(TRUE, lang, c, "")

botFixed == << code, temp_file_path, fileExists, process, returncode, pstate,
               ppid, holds, ignTerm, exitcode, err, now, waitStart, children,
               idx, alive, atDeadline, termSent, killSent, hist >>

BotInit ==
  /\ code \in Messages
  /\ language = ""
  /\ pc = "handle"
  /\ temp_file_path = "None"
  /\ fileExists = FALSE
  /\ process = FALSE
  /\ returncode = << >>
  /\ pstate = NoProc
  /\ ppid = [p \in Procs |-> INIT_PID]
  /\ holds = [p \in Procs |-> FALSE]
  /\ ignTerm = [p \in Procs |-> FALSE]
  /\ exitcode = 0
  /\ out = << >>
  /\ err = << >>
  /\ now = 0
  /\ waitStart = 0
  /\ children = << >>
  /\ idx = 1
  /\ alive = << >>
  /\ result = NoResult
  /\ atDeadline = {}
  /\ termSent = {}
  /\ killSent = {}
  /\ hist = InitHist

\* lines 816-831: eval_command, the handler of the /eval command, up to
\* the call of execute_code
EvalCommand ==
  /\ pc = "handle"
  /\ code.prefix = "/eval" /\ code.glued = ""
  /\ LET p == validate_eval_args(code)
     IN  /\ result' = [parsed |-> p, executed |-> NoResult, cmd |-> << >>]
         /\ IF ~p.is_valid
            THEN /\ pc' = "replied"
                 /\ out' = << p.error_message >>
                 /\ UNCHANGED language
            ELSE /\ pc' = "execute"
                 /\ language' = p.command_or_language
                 /\ UNCHANGED out
  /\ UNCHANGED botFixed

\* lines 933-951: the handler up to the call of execute_code; lines
\* 1250-1252 hand it the texts that are no commands
HandleEvalMessage ==
  /\ pc = "handle"
  /\ code.prefix # "/eval"
  /\ LET p == parse_eval_message(code)
     IN  /\ result' = [parsed |-> p, executed |-> NoResult, cmd |-> << >>]
         /\ IF ~p.is_valid
            THEN /\ pc' = "ignored"
                 /\ UNCHANGED << language, out >>
            ELSE IF p.command_or_language = "ping"
            THEN /\ pc' = "replied"
                 /\ out' = << "pong" >>
                 /\ UNCHANGED language
            ELSE IF p.error_message # ""
            THEN /\ pc' = "replied"
                 /\ out' = << p.error_message >>
                 /\ UNCHANGED language
            ELSE /\ pc' = "execute"
                 /\ language' = p.command_or_language
                 /\ UNCHANGED out
  /\ UNCHANGED botFixed

\* what execute_code(code, l) can return for a short code that matches no
\* pattern, with the command it ran
ExecuteOutcomes(l) ==
  IF ~LanguageSupported(l)
  THEN { [result |-> Rejection(<< "Unsupported language: ", l >>), cmd |-> << >>] }
  ELSE { [result |-> r, cmd |-> SUPPORTED_LANGUAGES[l].cmd] :
           r \in { CompletedResult(<< "a" >>, << >>, 0),
                   CompletedResult(<< >>, << "a" >>, 1),
                   TimeoutResult } }

\* lines 963-984: execute_code is awaited and its result is sent back
ExecuteAndReply ==
  /\ pc = "execute"
  /\ \E o \in ExecuteOutcomes(language) :
       /\ result' = [result EXCEPT !.executed = o.result, !.cmd = o.cmd]
       /\ out' = Append(out, [success |-> o.result.success,
                              language |-> language,
                              text |-> IF o.result.success THEN o.result.output
                                       ELSE o.result.error])
  /\ pc' = "replied"
  /\ UNCHANGED << language, botFixed >>

BotNext ==
  \/ EvalCommand
  \/ HandleEvalMessage
  \/ ExecuteAndReply

BotSpec == BotInit /\ [][BotNext]_vars

\* ------------------------------------------------------------------------
\* Concurrent calls and the clock
\* ------------------------------------------------------------------------
\* Two calls of execute_code on one event loop, from communicate() on, with
\* the wall clock. The interpreters fork nothing, so that kill_process_tree
\* has no children to wait for and its one timed wait is parent.wait.
\* kill_process_tree has no await: from its first line to its return the
\* event loop runs no other callback, the 3 seconds of parent.wait
\* included. Here pstate, ignTerm, returncode, waitStart, pc and result
\* are functions of the call; now counts the seconds since the first call
\* spawned.
loopFixed == << language, code, temp_file_path, fileExists, process, ppid,
                holds, exitcode, out, err, children, idx, alive, atDeadline,
                termSent, killSent >>

LoopInit ==
  /\ language = "bash"
  /\ code = Snippet(TRUE, 1, {})
  /\ pc = [c \in Calls |-> "communicate"]
  /\ temp_file_path = "tmp"
  /\ fileExists = TRUE
  /\ process = TRUE
  /\ returncode = [c \in Calls |-> << >>]
  /\ pstate = [c \in Calls |-> "running"]
  /\ ppid = [p \in Procs |-> INIT_PID]
  /\ holds = [p \in Procs |-> FALSE]
  /\ ignTerm \in [Calls -> BOOLEAN]
  /\ exitcode = 0
  /\ out = << >>
  /\ err = << >>
  /\ now = 0
  /\ waitStart = [c \in Calls |-> 0]
  /\ children = << >>
  /\ idx = 1
  /\ alive = << >>
  /\ result = [c \in Calls |-> NoResult]
  /\ atDeadline = {}
  /\ termSent = {}
  /\ killSent = {}
  /\ \E late \in 0 .. 2 :
       hist = [ spawnedAt |-> [c \in Calls |-> IF c = 1 THEN 0 ELSE late],
                exitedAt |-> [c \in Calls |-> -1],    \* when the interpreter exited by itself
                returnedAt |-> [c \in Calls |-> -1] ] \* when the call returned

\* the second at which wait_for of call c times out
Deadline(c) == hist.spawnedAt[c] + MAX_EXECUTION_TIME

\* no other call is inside kill_process_tree, so the event loop can run
\* the callbacks of call c
LoopFree(c) == \A d \in Calls \ {c} : pc[d] # "kpt_pwait"

\* the interpreter of call c exits by itself
LoopProcExit(c) ==
  /\ pc[c] = "communicate"
  /\ pstate[c] = "running"
  /\ ~ignTerm[c]
  /\ now >= hist.spawnedAt[c]
  /\ pstate' = [pstate EXCEPT ![c] = "zombie"]
  /\ hist' = [hist EXCEPT !.exitedAt[c] = now]
  /\ UNCHANGED << loopFixed, pc, ignTerm, returncode, waitStart, now, result >>

\* the child watcher reaps the interpreter and its callback sets the
\* return code
LoopWatcherReap(c) ==
  /\ pc[c] = "communicate"
  /\ pstate[c] = "zombie"
  /\ LoopFree(c)
  /\ pstate' = [pstate EXCEPT ![c] = "reaped"]
  /\ returncode' = [returncode EXCEPT ![c] = << 0 >>]
  /\ UNCHANGED << loopFixed, pc, ignTerm, waitStart, now, result, hist >>

\* lines 485-518: communicate() is done and the call returns
LoopCompleted(c) ==
  /\ pc[c] = "communicate"
  /\ returncode[c] # << >>
  /\ LoopFree(c)
  /\ pc' = [pc EXCEPT ![c] = "returned"]
  /\ result' = [result EXCEPT ![c] = CompletedResult(<< >>, << >>, returncode[c][1])]
  /\ hist' = [hist EXCEPT !.returnedAt[c] = now]
  /\ UNCHANGED << loopFixed, pstate, ignTerm, returncode, waitStart, now >>

\* lines 525-529 and 349-381: the timeout callback of call c runs;
\* kill_process_tree finds no children, sends SIGTERM to the interpreter
\* and enters parent.wait(timeout=3)
LoopTimeout(c) ==
  /\ pc[c] = "communicate"
  /\ now >= Deadline(c)
  /\ LoopFree(c)
  /\ IF pstate[c] = "reaped"
     THEN /\ pc' = [pc EXCEPT ![c] = "final_wait"]
          /\ UNCHANGED << pstate, waitStart >>
     ELSE /\ pc' = [pc EXCEPT ![c] = "kpt_pwait"]
          /\ waitStart' = [waitStart EXCEPT ![c] = now]
          /\ pstate' = [pstate EXCEPT ![c] =
                          IF @ = "running" /\ ~ignTerm[c] THEN "zombie" ELSE @]
  /\ UNCHANGED << loopFixed, ignTerm, returncode, now, result, hist >>

\* lines 381-386: parent.wait returns once the interpreter is dead, or
\* raises TimeoutExpired after 3 seconds and parent.kill() follows
LoopParentWait(c) ==
  /\ pc[c] = "kpt_pwait"
  /\ \/ pstate[c] = "zombie"
     \/ pstate[c] = "running" /\ now >= waitStart[c] + GRACE_PERIOD
  /\ pstate' = [pstate EXCEPT ![c] = IF @ = "zombie" THEN "reaped" ELSE "zombie"]
  /\ pc' = [pc EXCEPT ![c] = "final_wait"]
  /\ UNCHANGED << loopFixed, ignTerm, returncode, waitStart, now, result, hist >>

\* lines 531-541: await process.wait() gets the return code from the
\* child watcher and the call returns the timeout result
LoopFinalWait(c) ==
  /\ pc[c] = "final_wait"
  /\ LoopFree(c)
  /\ pstate' = [pstate EXCEPT ![c] = "reaped"]
  /\ returncode' = [returncode EXCEPT ![c] =
                      IF @ # << >> THEN @
                      ELSE IF pstate[c] = "zombie" THEN << -9 >> ELSE << 255 >>]
  /\ pc' = [pc EXCEPT ![c] = "returned"]
  /\ result' = [result EXCEPT ![c] = TimeoutResult]
  /\ hist' = [hist EXCEPT !.returnedAt[c] = now]
  /\ UNCHANGED << loopFixed, ignTerm, waitStart, now >>

\* call c has nothing to do before the clock advances: its callbacks have
\* run, or the event loop is held by the other call
LoopIdle(c) ==
  CASE pc[c] = "communicate" ->
         LoopFree(c) => (pstate[c] = "running" /\ now < Deadline(c))
    [] pc[c] = "kpt_pwait" ->
         pstate[c] = "running" /\ now < waitStart[c] + GRACE_PERIOD
    [] pc[c] = "final_wait" -> ~LoopFree(c)
    [] OTHER -> TRUE

LoopTick ==
  /\ now < MaxTime
  /\ \A c \in Calls : LoopIdle(c)
  /\ \E c \in Calls : pc[c] # "returned"
  /\ now' = now + 1
  /\ UNCHANGED << loopFixed, pc, pstate, ignTerm, returncode, waitStart, result, hist >>

LoopNext ==
  \/ \E c \in Calls :
       \/ LoopProcExit(c)
       \/ LoopWatcherReap(c)
       \/ LoopCompleted(c)
       \/ LoopTimeout(c)
       \/ LoopParentWait(c)
       \/ LoopFinalWait(c)
  \/ LoopTick

LoopSpec == LoopInit /\ [][LoopNext]_vars

\* ------------------------------------------------------------------------
\* Properties
\* ------------------------------------------------------------------------
Returned == pc = "returned"

\* staging completed and the call ended in Completed, TimedOut or
\* SpawnFailed (an unexpected exception of the spawn included)
ReturnedAfterStaging ==
  /\ Returned
  /\ hist.staged
  /\ hist.terminal \in {"Completed", "TimedOut", "SpawnFailed"}

KptPcs == {"kpt_exists", "kpt_enum", "kpt_term", "kpt_wait", "kpt_kill",
           "kpt_pterm", "kpt_pwait", "kpt_pkill"}

\* nothing went wrong in the supervision: every signal was delivered or
\* met a process already gone, and process.wait() did not raise
NoFault == ~hist.denied /\ ~hist.waitRaised

\* no process of the snippet has ended by itself
NoSelfExit ==
  /\ \A q \in Procs \ {CHILD} : pstate[q] # "exited"
  /\ pstate[CHILD] \in {"zombie", "reaped"} => exitcode < 0

C2_NoOrphans ==
  (Returned /\ hist.terminal \in {"Completed", "TimedOut"}) =>
    \A q \in Forked : ~Running(q)

\* C3: a call whose processes never exit by themselves returns from
\* TimedOut no later than timeout + grace period after the spawn (here
\* for the runs in which no signal fails and no wait raises).
C3_BoundedWallClock ==
  (Returned /\ hist.terminal = "TimedOut" /\ NoSelfExit /\ NoFault) =>
    now <= MAX_EXECUTION_TIME + GRACE_PERIOD

\* C4: every result returned from TimedOut has success = False, the empty
\* output and the timeout message, whatever the snippet had written.
C4_TimeoutResultUniform ==
  (Returned /\ hist.terminal = "TimedOut") =>
    /\ DOMAIN result = {"success", "output", "error"}
    /\ result.success = FALSE
    /\ result.output = << >>
    /\ result.error = << "Execution timed out after ", "10", " seconds" >>

\* a timed-out call whose snippet had written output before the deadline
C4_Witness ==
  /\ Returned
  /\ hist.terminal = "TimedOut"
  /\ out # << >> \/ err # << >>
  /\ result.output = << >>

\* C5: when execute_code returns from TimedOut, the interpreter has been
\* reaped.
C5_ChildReaped ==
  (Returned /\ hist.terminal = "TimedOut") => pstate[CHILD] = "reaped"

\* C6: when kill_process_tree returns, every process that was alive below
\* the interpreter at the deadline has been sent the termination signal.
C6_AllDescendantsTerminated ==
  [][ (pc \in KptPcs /\ pc' = "final_wait") => atDeadline \subseteq termSent ]_vars

\* C7: the kill procedure is two-phase and ordered: a forced kill goes
\* only to listed children that were sent the termination signal and were
\* still alive when the 3 second wait ended; the interpreter is sent the
\* termination signal only after every listed child was sent it and every
\* survivor was killed, and is killed only after its own 3 seconds; no
\* wait lasts longer than 3 seconds.
C7_TwoPhaseOrder ==
  /\ (killSent \ {CHILD}) \subseteq (termSent \cap SeqRange(alive))
  /\ pc = "kpt_kill" =>
       /\ now >= waitStart + GRACE_PERIOD
       /\ SeqRange(alive) \subseteq SeqRange(children)
       /\ SeqRange(children) \subseteq termSent
       /\ CHILD \notin termSent
  /\ pc = "kpt_term" => killSent = {} /\ CHILD \notin termSent
  /\ pc = "kpt_wait" => killSent = {} /\ CHILD \notin termSent
  /\ CHILD \in termSent =>
       /\ pc \in {"kpt_pwait", "kpt_pkill"}
       /\ SeqRange(children) \subseteq termSent
       /\ SeqRange(alive) \subseteq killSent
  /\ pc = "kpt_pkill" =>
       /\ CHILD \in termSent
       /\ now >= waitStart + GRACE_PERIOD
  /\ pc \in {"kpt_wait", "kpt_pwait"} => now <= waitStart + GRACE_PERIOD

\* both phases have run: two listed children were sent the termination
\* signal, one survivor was killed, the interpreter outlived its own grace
\* period and is about to be killed
C7_Witness ==
  /\ pc = "kpt_pkill"
  /\ Len(children) = 2
  /\ killSent # {}
  /\ now = MAX_EXECUTION_TIME + 2 * GRACE_PERIOD

\* C8: a signal that meets NoSuchProcess is a no-op: no loop over the
\* children is left early, every listed child is still sent the
\* termination signal and every survivor the kill, and the timeout result
\* is the usual one.
C8_NoSuchProcessIsNoOp ==
  /\ ~hist.loopAborted
  /\ pc \in {"kpt_wait", "kpt_kill", "kpt_pterm", "kpt_pwait", "kpt_pkill"} =>
       SeqRange(children) \subseteq termSent
  /\ pc \in {"kpt_pterm", "kpt_pwait", "kpt_pkill"} =>
       SeqRange(alive) \subseteq killSent
  /\ (Returned /\ hist.terminal = "TimedOut" /\ hist.noSuch) =>
       result = [success |-> FALSE, output |-> << >>,
                 error |-> << "Execution timed out after ", "10", " seconds" >>]

\* the first listed child had gone before it was signalled and the loop
\* has gone on to the second
C8_Witness ==
  /\ pc = "kpt_term"
  /\ idx = 2
  /\ Len(children) = 2
  /\ hist.noSuch
  /\ ~Running(children[1])
  /\ children[1] \in termSent

\* C9: when the interpreter exits before the deadline, the call ends in
\* Completed and the result carries the interpreter's return code.
C9_ExitBeforeDeadlineCompletes ==
  (Returned /\ hist.exitedEarly) =>
    /\ hist.terminal = "Completed"
    /\ "return_code" \in DOMAIN result
    /\ result.return_code = exitcode

\* C10, as stated: a result has no return_code only if no process was
\* spawned.
C10_ReturnCodeAbsentOnlyPreSpawn ==
  (Returned /\ "return_code" \notin DOMAIN result) => ~hist.spawned

\* C10, amended: a result has a return_code exactly when the call ended
\* in Completed, and it is then the interpreter's exit status as recorded
\* in process.returncode.
C10_ReturnCodeIffCompleted ==
  Returned =>
    /\ ("return_code" \in DOMAIN result) <=> (hist.terminal = "Completed")
    /\ hist.terminal = "Completed" => result.return_code = returncode[1]

\* a completed call of a failing snippet and its return code
C10_Witness ==
  /\ Returned
  /\ hist.spawned
  /\ hist.terminal = "Completed"
  /\ result.return_code = 1

\* the request is one that validation has to reject
InvalidRequest ==
  \/ language = ""
  \/ language \notin DOMAIN SUPPORTED_LANGUAGES
  \/ code.len = 0
  \/ ~code.isStr
  \/ code.len > MAX_CODE_LENGTH
  \/ code.hits # {}

\* C11: a request that validation has to reject (unsupported or empty
\* language, empty or non-string code, code that is too long or matches a
\* forbidden pattern) never gets past validation; the call returns
\* success = False with a reason and without return_code, no file was
\* staged and no process was spawned.
C11_RejectedBeforeStaging ==
  /\ InvalidRequest => pc \in {"validate", "returned"}
  /\ (Returned /\ InvalidRequest) =>
       /\ hist.terminal = "Rejected"
       /\ DOMAIN result = {"success", "output", "error"}
       /\ result.success = FALSE
       /\ result.output = << >>
       /\ result.error # << >>
       /\ ~hist.created /\ ~hist.staged /\ ~hist.spawned
       /\ temp_file_path = "None" /\ ~fileExists
       /\ ~process /\ pstate = NoProc
  /\ (Returned /\ hist.terminal = "Rejected") => InvalidRequest

\* a supported language with a snippet that matches forbidden patterns:
\* rejected with the reason of is_code_safe
C11_Witness ==
  /\ Returned
  /\ language = "bash"
  /\ code.hits # {} /\ code.len <= MAX_CODE_LENGTH
  /\ hist.terminal = "Rejected"
  /\ result.error = << "Code rejected for security reasons: ",
                       "Forbidden pattern detected: ", "import\\s+os" >>

\* C12: is_code_safe checks (1) that the code is a non-empty str, (2) that
\* it is no longer than MAX_CODE_LENGTH, (3) the forbidden patterns in list
\* order, and reports the first check that fails: too long wins over a
\* pattern, exactly MAX_CODE_LENGTH characters pass the length check, and
\* of several matching patterns the first of the list is named.
C12_FirstFailingCheck ==
  pc = "safe_returned" =>
    LET tooLong == << "Code too long (max ", "10000", " characters)" >>
    IN  /\ (code.len = 0 \/ ~code.isStr) =>
             result = [is_safe |-> FALSE, reason |-> << "Invalid code input" >>]
        /\ (code.isStr /\ code.len > MAX_CODE_LENGTH) =>
             result = [is_safe |-> FALSE, reason |-> tooLong]
        /\ (code.isStr /\ code.len \in 1 .. MAX_CODE_LENGTH /\ code.hits # {}) =>
             /\ result.is_safe = FALSE
             /\ \E k \in code.hits :
                  /\ \A j \in code.hits : k <= j
                  /\ result.reason = << "Forbidden pattern detected: ", FORBIDDEN_PATTERNS[k] >>
        /\ (code.isStr /\ code.len \in 1 .. MAX_CODE_LENGTH /\ code.hits = {}) =>
             result = [is_safe |-> TRUE, reason |-> << >>]

\* a str one character over the limit that matches two patterns is
\* rejected as too long
C12_Witness ==
  /\ pc = "safe_returned"
  /\ code.isStr
  /\ code.len = MAX_CODE_LENGTH + 1
  /\ Cardinality(code.hits) = 2
  /\ result.reason = << "Code too long (max ", "10000", " characters)" >>

\* C13: in every result of a completed execution, success is true exactly
\* when the interpreter's return code is 0, and error is the empty string
\* whenever success is true.
C13_SuccessIffZero ==
  (Returned /\ hist.terminal = "Completed") =>
    /\ result.success <=> (exitcode = 0)
    /\ result.success <=> (result.return_code = 0)
    /\ result.success => result.error = << >>

\* a snippet that wrote to stderr and exited with 0: success, error empty
C13_Witness ==
  /\ Returned
  /\ hist.terminal = "Completed"
  /\ exitcode = 0
  /\ err # << >>
  /\ result.success
  /\ result.error = << >>

\* C14: in every result of a completed execution, output is the truncated
\* stdout when success is true and the truncated stderr when it is false;
\* what a failed program wrote to stdout is in no field of the result.
C14_OutputSelection ==
  (Returned /\ hist.terminal = "Completed") =>
    /\ result.success => result.output = Truncate(out, OUT_MARKER)
    /\ ~result.success =>
         /\ result.output = Truncate(err, ERR_MARKER)
         /\ result.error = Truncate(err, ERR_MARKER)

\* a failing snippet that wrote to stdout only: the output is empty
C14_Witness ==
  /\ Returned
  /\ hist.terminal = "Completed"
  /\ exitcode = 1
  /\ out # << >>
  /\ err = << >>
  /\ result.output = << >>

\* C15: cleanup_temp_file is invoked exactly once in every execution that
\* reaches Completed, TimedOut or SpawnFailed: not before the return, once
\* at the return, never twice.
C15_CleanupExactlyOnce ==
  /\ hist.cleanupCalls <= 1
  /\ ~Returned => hist.cleanupCalls = 0
  /\ (Returned /\ hist.terminal \in {"Completed", "TimedOut", "SpawnFailed"}) =>
       hist.cleanupCalls = 1

\* a call whose spawn failed has released its staged file, once
C15_Witness ==
  /\ Returned
  /\ hist.terminal = "SpawnFailed"
  /\ hist.cleanupCalls = 1
  /\ hist.unlinked

\* C16: when staging fails, the call returns success = False with the
\* staging failure as its error, no process was spawned, and when the
\* failed staging had created a file, cleanup_temp_file was invoked on it
\* and the file is gone (unless os.unlink itself failed).
C16_StagingFailureCleansUp ==
  (Returned /\ hist.terminal = "StagingFailed") =>
    /\ result.success = FALSE
    /\ result.error[1] \in {"Failed to create temporary file: ",
                            "Temporary file was not created"}
    /\ "return_code" \notin DOMAIN result
    /\ ~hist.spawned /\ pstate = NoProc
    /\ hist.created =>
         /\ hist.cleanupCalls = 1
         /\ fileExists => hist.unlinkFailed

C19_CleanupFailureOnlyLogged ==
  /\ result # Raised
  /\ (Returned /\ hist.terminal = "TimedOut") =>
       result = [success |-> FALSE, output |-> << >>,
                 error |-> << "Execution timed out after ", "10", " seconds" >>]
  /\ (Returned /\ hist.terminal = "Completed") =>
       result = [success |-> exitcode = 0,
                 output |-> IF exitcode = 0 THEN out ELSE err,
                 error |-> IF exitcode = 0 THEN << >> ELSE err,
                 return_code |-> exitcode]
  /\ (Returned /\ hist.staged /\ hist.cleanupCalls = 1 /\ ~hist.unlinked
        /\ ~hist.unlinkFailed) =>
       result = Rejection(<< "Temporary file was not created" >>)

\* a timed-out call in which a signal was refused and os.unlink failed
\* returns the usual timeout result
C19_Witness ==
  /\ Returned
  /\ hist.terminal = "TimedOut"
  /\ hist.denied
  /\ hist.unlinkFailed
  /\ fileExists
  /\ result.error = << "Execution timed out after ", "10", " seconds" >>

\* C20: cleanup_temp_file is idempotent: a second call on the same path
\* leaves the file system as the first call left it, a call on a path
\* whose file is missing (or on no path) changes nothing, and no call
\* raises.
C20_CleanupIdempotent ==
  [][ pc' = "cleaned" =>
        /\ result' # Raised
        /\ hist.cleanupCalls = 1 => fileExists' = fileExists
        /\ ~fileExists => ~fileExists'
        /\ temp_file_path = "None" => fileExists' = fileExists
        /\ temp_file_path' = temp_file_path ]_vars

\* two calls on a path whose file was there: the first removed it, the
\* second found it missing
C20_Witness ==
  /\ pc = "cleaned"
  /\ temp_file_path = "tmp"
  /\ hist.cleanupCalls = 2
  /\ hist.unlinked
  /\ ~fileExists
  /\ result = [returned |-> "None"]

\* C18: concurrent calls are isolated: two calls in flight never have the
\* same staged path, the cleanup of a call never removes a file staged by
\* another call, and kill_process_tree of a call never signals a process
\* of another call.
C18_CallsIsolated ==
  /\ \A c, d \in Calls :
       (c # d /\ pc[c] # "returned" /\ pc[d] # "returned"
          /\ temp_file_path[c] # "None") =>
         temp_file_path[c] # temp_file_path[d]
  /\ ~hist.crossUnlink
  /\ ~hist.crossSignal

\* C21: a malformed pattern in the forbidden set does not abort the
\* validation: is_code_safe skips it and goes on with the patterns after
\* it, so a code that matches a well-formed pattern is rejected with the
\* first such pattern, and a code that matches no well-formed pattern is
\* accepted.
C21_MalformedPatternSkipped ==
  (/\ pc = "safe_returned"
   /\ code.isStr /\ code.len \in 1 .. MAX_CODE_LENGTH
   /\ ReErrors(code) # {}) =>
    LET wellFormedHits == code.hits \ ReErrors(code)
    IN  /\ wellFormedHits # {} =>
             /\ ~result.is_safe
             /\ \E k \in wellFormedHits :
                  /\ \A j \in wellFormedHits : k <= j
                  /\ result.reason = << "Forbidden pattern detected: ",
                                       FORBIDDEN_PATTERNS[k] >>
        /\ wellFormedHits = {} => result = [is_safe |-> TRUE, reason |-> << >>]

\* the first pattern is malformed and the code matches the fourth: the
\* call names the fourth
C21_Witness ==
  /\ pc = "safe_returned"
  /\ code.isStr /\ code.len = 40
  /\ ReErrors(code) = {1}
  /\ code.hits = {4}
  /\ result = [is_safe |-> FALSE,
               reason |-> << "Forbidden pattern detected: ", "__import__" >>]

\* C22: the truncation step applied to its own output returns that output:
\* no second marker is added and nothing more is cut.
C22_TruncationIdempotent ==
  [][(pc = "truncated" /\ pc' = "retruncated") => result' = result]_vars

\* both streams were cut the first time and the second application
\* returned them as they were
C22_Witness ==
  /\ pc = "retruncated"
  /\ Len(out) > MAX_OUTPUT_LENGTH /\ Len(err) > MAX_OUTPUT_LENGTH
  /\ Len(result.stdout_str) = MAX_OUTPUT_LENGTH + Len(OUT_MARKER)
  /\ Len(result.stderr_str) = MAX_OUTPUT_LENGTH + Len(ERR_MARKER)

\* C23: stdout and stderr are truncated independently: a stream of at most
\* MAX_OUTPUT_LENGTH characters is returned unchanged, a longer one is cut
\* to its first MAX_OUTPUT_LENGTH characters followed by its marker, and
\* what happens to one stream does not depend on the other.
C23_IndependentTruncation ==
  pc = "truncated" =>
    /\ result.stdout_str =
         IF Len(out) <= MAX_OUTPUT_LENGTH THEN out
         ELSE [i \in 1 .. MAX_OUTPUT_LENGTH + 23 |->
                 IF i <= MAX_OUTPUT_LENGTH THEN out[i] ELSE "~"]
    /\ result.stderr_str =
         IF Len(err) <= MAX_OUTPUT_LENGTH THEN err
         ELSE [i \in 1 .. MAX_OUTPUT_LENGTH + 29 |->
                 IF i <= MAX_OUTPUT_LENGTH THEN err[i] ELSE "~"]

\* stdout is one character over the limit and is cut, stderr is exactly
\* at the limit and is returned as it is
C23_Witness ==
  /\ pc = "truncated"
  /\ Len(out) = MAX_OUTPUT_LENGTH + 1
  /\ Len(err) = MAX_OUTPUT_LENGTH
  /\ Len(result.stdout_str) = MAX_OUTPUT_LENGTH + 23
  /\ result.stdout_str[MAX_OUTPUT_LENGTH] = "a"
  /\ result.stdout_str[MAX_OUTPUT_LENGTH + 1] = "~"
  /\ result.stderr_str = err

C26_ExactLanguageLookup ==
  LET known == {"python", "javascript", "bash", "shell"}
      unsupported == [success |-> FALSE, output |-> << >>,
                      error |-> << "Unsupported language: ", language >>]
  IN  /\ pc = "stage" => language \in known
      /\ pc = "returned" => (language \notin known <=> result = unsupported)
      /\ SUPPORTED_LANGUAGES["bash"] = SUPPORTED_LANGUAGES["shell"]
      /\ SUPPORTED_LANGUAGES["shell"] = [ext |-> ".sh", cmd |-> << "bash" >>]

\* Python, with a capital, is not a key of the table
C26_Witness ==
  /\ pc = "returned"
  /\ language = "Python"
  /\ code = Benign
  /\ result.error = << "Unsupported language: ", "Python" >>

\* C24: communicate() never collects more than the capture limit of 1 MiB
\* from a stream, however much the child writes before it exits or the
\* deadline fires.
C24_CaptureBounded ==
  /\ out.collected <= CAPTURE_LIMIT
  /\ err.collected <= CAPTURE_LIMIT
  /\ pc = "decode" => (result.stdout <= CAPTURE_LIMIT /\ result.stderr <= CAPTURE_LIMIT)

\* C27: a chat message that names the language js, as the examples of the
\* start and help texts do, is accepted and its code is run with the
\* JavaScript interpreter.
C27_JsRunsJavaScript ==
  (pc = "replied" /\ language = "js") =>
    /\ result.cmd = << "node" >>
    /\ result.executed # Rejection(<< "Unsupported language: ", "js" >>)

\* C30: a ?eval or !eval message without content after the prefix, or with
\* a language and no code, is answered with the message that
\* parse_eval_message produced for it.
C30_MalformedAnswered ==
  (/\ pc \in {"ignored", "replied"}
   /\ code.prefix \in {"?eval", "!eval"}
   /\ ~result.parsed.is_valid) =>
    out = << result.parsed.error_message >>

\* C28: every execution follows Validated -> Staged -> Running ->
\* {Completed | TimedOut | SpawnFailed} -> Cleaned: no process exists
\* before the file is staged; a call that spawned ends in exactly one of
\* Completed and TimedOut and a failed spawn in SpawnFailed with no
\* process, the first decision standing also when the exit and the
\* deadline coincide; kill_process_tree is entered only from the deadline
\* and ends only in TimedOut; the cleanup runs in the step that returns,
\* and nothing happens after it.
C28_StateMachine ==
  /\ [](/\ (process \/ pstate[CHILD] # "none") => (hist.staged /\ hist.created)
        /\ hist.spawned <=> process
        /\ Returned =>
             /\ hist.spawned <=> hist.terminal \in {"Completed", "TimedOut"}
             /\ hist.terminal \in {"Completed", "TimedOut", "SpawnFailed"} =>
                  hist.cleanupCalls = 1
        /\ hist.terminal # "none" <=> Returned
        /\ ~Returned => hist.cleanupCalls = 0)
  /\ [][/\ pc # "returned"
        /\ (pc' \in KptPcs /\ pc \notin KptPcs) =>
             (pc = "communicate" /\ now = MAX_EXECUTION_TIME /\ pc' = "kpt_exists")
        /\ pc \in KptPcs \cup {"final_wait"} =>
             \/ pc' \in KptPcs \cup {"final_wait"}
             \/ pc' = "returned" /\ hist'.terminal = "TimedOut"
        /\ hist'.terminal = "TimedOut" => pc = "final_wait"
        /\ hist'.terminal = "Completed" => pc = "communicate"
        /\ hist'.terminal = "SpawnFailed" => (pc = "spawn" /\ pstate[CHILD] = "none")
        /\ pc' = "communicate" => pc \in {"spawn", "communicate"}
        /\ pc' = "spawn" => (pc = "verify" /\ hist.staged)]_vars

\* the interpreter exited and was reaped in the second the deadline falls
\* in, communicate() won, and the call returned Completed after one
\* cleanup
C28_Witness ==
  /\ Returned
  /\ now = MAX_EXECUTION_TIME
  /\ hist.terminal = "Completed"
  /\ hist.cleanupCalls = 1
  /\ termSent = {} /\ killSent = {}

\* C29: the wall-clock bound of a call does not depend on the other call:
\* a call whose interpreter exits before the deadline returns in the
\* second of the exit, and a call that times out returns within the grace
\* period of its own kill procedure after its own deadline, also while
\* the other call is inside kill_process_tree.
C29_BoundUnaffected ==
  \A c \in Calls :
    pc[c] = "returned" =>
      /\ result[c].success => hist.returnedAt[c] = hist.exitedAt[c]
      /\ (~result[c].success /\ hist.exitedAt[c] = -1) =>
           hist.returnedAt[c] <= Deadline(c) + GRACE_PERIOD

\* C31: execute_code raises nothing to its caller, whatever fails in
\* validation, staging, spawn, supervision or cleanup: every call that
\* returns hands back a dictionary with at least the keys success, output
\* and error.
C31_AlwaysADictionary ==
  /\ "raised" \notin DOMAIN result
  /\ Returned =>
       /\ {"success", "output", "error"} \subseteq DOMAIN result
       /\ result.success \in BOOLEAN

\* temp_file.write raised an exception that is no IOError and the call
\* returned the result of the outermost handler
C31_Witness ==
  /\ Returned
  /\ hist.terminal = "StagingFailed"
  /\ hist.created /\ ~hist.staged
  /\ result = [success |-> FALSE, output |-> << >>,
               error |-> << "Fatal error in code execution: ", "<e>" >>]

\* C32: the staged file is there for as long as the interpreter runs: the
\* call removes it only after the interpreter has exited (Completed) or
\* has been killed and waited for (TimedOut), never while it is alive.
C32_FileOutlivesChild ==
  (process /\ hist.staged /\ ~fileExists) =>
    /\ pstate[CHILD] # "running"
    /\ hist.terminal = "TimedOut" => pstate[CHILD] = "reaped"

\* C33: for every message that validate_eval_args or parse_eval_message
\* accepts (the command word standing alone), the language is the first
\* word after the command and the code handed to execute_code holds every
\* word of the text after it, in order, also when the message has several
\* lines and code follows the language on the first line.
C33_NoCodeDropped ==
  (pc = "execute" /\ code.glued = "") =>
    /\ result.parsed.command_or_language = Lower(Head(code.head \o Flatten(code.tail)))
    /\ Flatten(result.parsed.code) = Tail(code.head \o Flatten(code.tail))

====
